---- MODULE Spec2Model ----
(***************************************************************************)
(* Email-to-transaction worker of back-finance.                            *)
(*                                                                         *)
(* Two variants of the worker are in the source: the multi-institution     *)
(* worker (src/unnamed/part_001) and the single-institution Mercado Pago   *)
(* worker (src/unnamed/part_000).  One invocation of the email handler is  *)
(* modelled as a state machine whose steps are the stretches of code       *)
(* between two awaits; the outbound calls (Workers AI, the webhook, the    *)
(* forward-verification endpoint) are answered by the environment.         *)
(* ParserSpec calls the parser's functions on their own, and BackendSpec   *)
(* is the webhook of the backend (src/SETUP_GUIDE.md) over the tables of   *)
(* src/src/db/schema.sql, handling several requests at once.               *)
(* Texts are TLA+ strings; amounts are integer cents.                      *)
(***************************************************************************)
EXTENDS Integers, Sequences, FiniteSets, TLC

(***************************************************************************)
(* JavaScript string primitives                                            *)
(***************************************************************************)

NULL == "<null>"

UpperChars == "ABCDEFGHIJKLMNOPQRSTUVWXYZÁÉÍÓÚÑ"
LowerChars == "abcdefghijklmnopqrstuvwxyzáéíóúñ"
Digits == {"0", "1", "2", "3", "4", "5", "6", "7", "8", "9"}
WhiteSpace == {" ", "\t", "\n", "\r"}

Min(a, b) == IF a <= b THEN a ELSE b

Max(a, b) == IF a >= b THEN a ELSE b

\* s[i], 1-based; "" outside the string
CharAt(s, i) == IF i >= 1 /\ i <= Len(s) THEN SubSeq(s, i, i) ELSE ""

CharsOf(s) == {CharAt(s, i) : i \in 1..Len(s)}

LowerAlpha == CharsOf(LowerChars)

UpperAlpha == CharsOf(UpperChars)

\* the lower-case letter of each upper-case letter
LowerOf ==
    [c \in UpperAlpha |->
        CharAt(LowerChars, CHOOSE i \in 1..Len(UpperChars) : CharAt(UpperChars, i) = c)]

lowerChar(c) == IF c \in UpperAlpha THEN LowerOf[c] ELSE c

toLowerCase(s) ==
    LET lower[t \in STRING] ==
            IF Len(t) <= 1 THEN lowerChar(t)
            ELSE lower[SubSeq(t, 1, Len(t) \div 2)]
                 \o lower[SubSeq(t, Len(t) \div 2 + 1, Len(t))]
    IN  lower[s]

\* s.includes(k)
includes(s, k) ==
    \E t \in {s} : \E i \in 0..(Len(t) - Len(k)) : SubSeq(t, i + 1, i + Len(k)) = k

startsWith(s, k) == Len(s) >= Len(k) /\ SubSeq(s, 1, Len(k)) = k

endsWith(s, k) == Len(s) >= Len(k) /\ SubSeq(s, Len(s) - Len(k) + 1, Len(s)) = k

\* s.substring(a, b), 0-based, b exclusive
substring(s, a, b) == SubSeq(s, Min(a, Len(s)) + 1, Min(b, Len(s)))

\* s.trim()
trim(s) ==
    LET strip[t \in STRING] ==
            IF Len(t) > 0 /\ CharAt(t, 1) \in WhiteSpace THEN strip[SubSeq(t, 2, Len(t))]
            ELSE IF Len(t) > 0 /\ CharAt(t, Len(t)) \in WhiteSpace
            THEN strip[SubSeq(t, 1, Len(t) - 1)]
            ELSE t
    IN  strip[s]

\* the longest run of characters of class cls that starts at 1-based position i
\* (its length): a greedy cls* of a regular expression
RunLen(s, i, cls) ==
    LET run[t \in STRING, k \in Int] ==
            IF k >= 1 /\ k <= Len(t) /\ CharAt(t, k) \in cls THEN 1 + run[t, k + 1] ELSE 0
    IN  run[s, i]

\* the same for the characters outside cls: a greedy [^cls]*
RunLenExcept(s, i, cls) ==
    LET run[t \in STRING, k \in Int] ==
            IF k >= 1 /\ k <= Len(t) /\ CharAt(t, k) \notin cls THEN 1 + run[t, k + 1] ELSE 0
    IN  run[s, i]

\* s with every character outside cls removed: s.replace(/[^cls]/g, '')
keepChars(s, cls) ==
    LET keep[t \in STRING] ==
            IF Len(t) = 0 THEN ""
            ELSE IF Len(t) = 1 THEN (IF t \in cls THEN t ELSE "")
            ELSE keep[SubSeq(t, 1, Len(t) \div 2)] \o keep[SubSeq(t, Len(t) \div 2 + 1, Len(t))]
    IN  keep[s]

\* n copies of the one-character string c
RECURSIVE repeat(_, _)
repeat(c, n) ==
    IF n <= 0 THEN ""
    ELSE IF n = 1 THEN c
    ELSE LET h == n \div 2 IN repeat(c, h) \o repeat(c, n - h)

\* the digits of a decimal digit string as a number; 0 for ""
digitsValue(s) ==
    LET value[t \in STRING] ==
            IF Len(t) = 0 THEN 0
            ELSE 10 * value[SubSeq(t, 1, Len(t) - 1)]
                 + (CHOOSE n \in 0..9 : CharAt("0123456789", n + 1) = CharAt(t, Len(t)))
    IN  value[s]

(***************************************************************************)
(* Configuration: registry and keyword lists                               *)
(***************************************************************************)

FINANCIAL_INSTITUTIONS == <<
    [id |-> "mercadopago", name |-> "Mercado Pago", type |-> "fintech",
     transactionalDomains |-> <<"info@mercadopago.com", "info@mercadopago.com.ar">>,
     marketingDomains |-> <<"marketing@mercadopago.com", "marketing@mercadopago.com.ar",
                            "promociones@mercadopago.com">>],
    [id |-> "uala", name |-> "Ualá", type |-> "fintech",
     transactionalDomains |-> <<"@uala.com.ar", "@notificaciones.uala.com.ar">>,
     marketingDomains |-> <<"@marketing.uala.com.ar", "@promo.uala.com.ar">>],
    [id |-> "brubank", name |-> "Brubank", type |-> "fintech",
     transactionalDomains |-> <<"@brubank.com.ar", "@notificaciones.brubank.com.ar">>,
     marketingDomains |-> <<"@marketing.brubank.com.ar">>],
    [id |-> "naranjax", name |-> "Naranja X", type |-> "fintech",
     transactionalDomains |-> <<"@naranjax.com", "@notificaciones.naranjax.com">>,
     marketingDomains |-> <<"@marketing.naranjax.com">>],
    [id |-> "personalpay", name |-> "Personal Pay", type |-> "fintech",
     transactionalDomains |-> <<"@personalpay.com.ar">>,
     marketingDomains |-> <<"@marketing.personalpay.com.ar">>],
    [id |-> "galicia", name |-> "Banco Galicia", type |-> "bank",
     transactionalDomains |-> <<"@bancogalicia.com.ar", "@e.bancogalicia.com.ar",
                                "@notificaciones.bancogalicia.com.ar">>,
     marketingDomains |-> <<"@marketing.bancogalicia.com.ar", "@ofertas.bancogalicia.com.ar">>],
    [id |-> "santander", name |-> "Banco Santander", type |-> "bank",
     transactionalDomains |-> <<"@santander.com.ar", "@email.santander.com.ar",
                                "@notificaciones.santander.com.ar">>,
     marketingDomains |-> <<"@marketing.santander.com.ar", "@ofertas.santander.com.ar">>],
    [id |-> "bbva", name |-> "BBVA", type |-> "bank",
     transactionalDomains |-> <<"@bbva.com.ar", "@notificaciones.bbva.com.ar">>,
     marketingDomains |-> <<"@marketing.bbva.com.ar">>],
    [id |-> "nacion", name |-> "Banco Nación", type |-> "bank",
     transactionalDomains |-> <<"@bna.com.ar", "@notificaciones.bna.com.ar">>,
     marketingDomains |-> <<"@marketing.bna.com.ar">>],
    [id |-> "macro", name |-> "Banco Macro", type |-> "bank",
     transactionalDomains |-> <<"@macro.com.ar", "@notificaciones.macro.com.ar">>,
     marketingDomains |-> <<"@marketing.macro.com.ar">>],
    [id |-> "hsbc", name |-> "HSBC Argentina", type |-> "bank",
     transactionalDomains |-> <<"@hsbc.com.ar", "@notificaciones.hsbc.com.ar">>,
     marketingDomains |-> <<"@marketing.hsbc.com.ar">>],
    [id |-> "icbc", name |-> "ICBC Argentina", type |-> "bank",
     transactionalDomains |-> <<"@icbc.com.ar", "@notificaciones.icbc.com.ar">>,
     marketingDomains |-> <<"@marketing.icbc.com.ar">>] >>

PROMOTIONAL_KEYWORDS == <<
    "cashback disponible", "ganaste", "beneficio exclusivo", "descuento",
    "oferta especial", "promo", "cupón", "premio", "sorteo", "regalo",
    "aprovechá", "no te pierdas", "por tiempo limitado", "solo hoy",
    "última oportunidad", "exclusivo para vos", "bonus", "puntos extra",
    "recompensa", "acumulá", "canjeá", "duplicá", "triplicá" >>

transactionKeywords == <<
    "transferiste", "recibiste", "pagaste", "te transfirieron",
    "te pagaron", "retiro", "depósito", "compra", "cobro",
    "movimiento", "operación exitosa", "comprobante" >>

VALID_CATEGORIES == <<
    "utilities-bills", "food-dining", "transportation", "shopping-clothing",
    "health-wellness", "recreation-entertainment", "financial-obligations",
    "savings-investments", "miscellaneous-other" >>

VALID_TRANSACTION_TYPES == <<
    "transfer_received", "transfer_sent", "payment_received", "payment_sent",
    "withdrawal", "deposit", "refund_received", "refund_sent" >>

Range(seq) == {seq[i] : i \in 1..Len(seq)}

\* the first entry of the list kws that text includes, NULL when none
FirstKeyword(kws, text) ==
    LET first[t \in STRING, i \in Nat] ==
            IF i > Len(kws) THEN NULL
            ELSE IF includes(t, kws[i]) THEN kws[i]
            ELSE first[t, i + 1]
    IN  first[text, 1]

(***************************************************************************)
(* Recipient and sender                                                    *)
(***************************************************************************)

\* [a-z] is the ASCII range only
AsciiLower == CharsOf("abcdefghijklmnopqrstuvwxyz")

UserIdChars == AsciiLower \cup Digits \cup {"_"}

TypeIdChars == AsciiLower \cup {"_"}

CategoryIdChars == AsciiLower \cup {"-"}

AmountChars == Digits \cup {"."}

\* /^user_([a-z0-9_]+)@/ on the lower-cased address: the capture, or NULL
extractUserId(email) ==
    IF email = "" THEN NULL
    ELSE LET lower == toLowerCase(email)
             n == RunLen(lower, 6, UserIdChars)
         IN  IF startsWith(lower, "user_") /\ n >= 1 /\ CharAt(lower, 6 + n) = "@"
             THEN SubSeq(lower, 6, 5 + n)
             ELSE NULL

\* "Name <addr>" -> addr; lower-cased and trimmed
extractEmailAddress(from) ==
    LET \* lowerFrom.match(/<([^>]+)>/) looked for from position i on: the
        \* trimmed capture of the leftmost match, lowerFrom itself without one
        address[lowerFrom \in STRING, i \in Nat] ==
            IF i > Len(lowerFrom) THEN lowerFrom
            ELSE IF /\ CharAt(lowerFrom, i) = "<"
                    /\ RunLenExcept(lowerFrom, i + 1, {">"}) >= 1
                    /\ CharAt(lowerFrom, i + 1 + RunLenExcept(lowerFrom, i + 1, {">"})) = ">"
            THEN trim(SubSeq(lowerFrom, i + 1, i + RunLenExcept(lowerFrom, i + 1, {">"})))
            ELSE address[lowerFrom, i + 1]
    IN  IF from = "" THEN "" ELSE address[trim(toLowerCase(from)), 1]

\* one registry entry against the bare address: a leading "@" is a domain
\* suffix, anything else an exact address
SenderEntryMatches(email, domain) ==
    IF startsWith(domain, "@") THEN endsWith(email, domain) ELSE email = domain

NoInstitution == [id |-> NULL, name |-> NULL, type |-> NULL, isMarketing |-> FALSE]

\* the loop over one institution without its marketing list
InstitutionMatch_TransactionalOnly(inst, email) ==
    IF \E i \in 1..Len(inst.transactionalDomains) :
           SenderEntryMatches(email, inst.transactionalDomains[i])
    THEN "transactional"
    ELSE NULL

\* the result of the loop over one institution: "transactional", "marketing" or NULL
InstitutionMatch(inst, email) ==
    IF \E i \in 1..Len(inst.transactionalDomains) :
           SenderEntryMatches(email, inst.transactionalDomains[i])
    THEN "transactional"
    ELSE IF \E i \in 1..Len(inst.marketingDomains) :
                SenderEntryMatches(email, inst.marketingDomains[i])
    THEN "marketing"
    ELSE NULL

identifyInstitution(from) ==
    LET \* the loop over the registry from entry i on: the first entry that matches
        find[email \in STRING, i \in Nat] ==
            IF i > Len(FINANCIAL_INSTITUTIONS) THEN NoInstitution
            ELSE IF InstitutionMatch(FINANCIAL_INSTITUTIONS[i], email) = NULL
            THEN find[email, i + 1]
            ELSE [id |-> FINANCIAL_INSTITUTIONS[i].id,
                  name |-> FINANCIAL_INSTITUTIONS[i].name,
                  type |-> FINANCIAL_INSTITUTIONS[i].type,
                  isMarketing |->
                      InstitutionMatch(FINANCIAL_INSTITUTIONS[i], email) = "marketing"]
    IN  IF extractEmailAddress(from) = "" THEN NoInstitution
        ELSE find[extractEmailAddress(from), 1]

\* the single-institution worker: a substring test on the whole From text
validSenders == <<"info@mercadopago.com", "info@mercadopago.com.ar">>

isFromMercadoPago(from) ==
    IF from = "" THEN FALSE
    ELSE \E i \in 1..Len(validSenders) : includes(toLowerCase(from), validSenders[i])

\* the verification senders diverted before institution matching
isVerificationSender(from) ==
    includes(from, "forwarding-noreply@google.com") \/ includes(from, "noreply@google.com")

(***************************************************************************)
(* Answers of the Workers AI binding (env.AI.run)                          *)
(*   kind "text":    the call resolves to an object with a response text   *)
(*   kind "missing": it resolves to an object without a response text      *)
(*   kind "null":    it resolves to null/undefined                         *)
(*   kind "throw":   it rejects (an error, or a timeout the platform       *)
(*                   reports as one)                                       *)
(***************************************************************************)

AIText(t) == [kind |-> "text", text |-> t]

AIMissing == [kind |-> "missing", text |-> ""]

AINull == [kind |-> "null", text |-> ""]

AIThrow == [kind |-> "throw", text |-> ""]

\* reading result.response throws on a null result, as a rejected call does
AIRaises(result) == result.kind \in {"throw", "null"}

(***************************************************************************)
(* Step 2: intent                                                          *)
(***************************************************************************)

\* emailBody.substring(0, 500) is what the intent classifier and the
\* parse_failed record see
PreviewLen == 500

NoIntent == [type |-> NULL, confidence |-> NULL, reason |-> NULL]

\* classifyEmailIntent matching the keywords against the text as written,
\* without lower-casing it
IntentByRules_CaseSensitive(institution, subject, bodyPreview) ==
    LET fullText == subject \o " " \o bodyPreview
        promo == FirstKeyword(PROMOTIONAL_KEYWORDS, fullText)
        tx == FirstKeyword(transactionKeywords, fullText)
    IN  IF promo # NULL
        THEN [type |-> "promotional", confidence |-> "keyword", reason |-> promo]
        ELSE IF institution.isMarketing
        THEN [type |-> "promotional", confidence |-> "domain", reason |-> "marketing domain"]
        ELSE IF tx # NULL
        THEN [type |-> "transaction", confidence |-> "keyword", reason |-> tx]
        ELSE NoIntent

\* classifyEmailIntent looking for transaction keywords before it looks at
\* the marketing flag of the sender
IntentByRules_KeywordsBeforeDomain(institution, subject, bodyPreview) ==
    LET fullText == toLowerCase(subject) \o " " \o toLowerCase(bodyPreview)
        promo == FirstKeyword(PROMOTIONAL_KEYWORDS, fullText)
        tx == FirstKeyword(transactionKeywords, fullText)
    IN  IF promo # NULL
        THEN [type |-> "promotional", confidence |-> "keyword", reason |-> promo]
        ELSE IF tx # NULL
        THEN [type |-> "transaction", confidence |-> "keyword", reason |-> tx]
        ELSE IF institution.isMarketing
        THEN [type |-> "promotional", confidence |-> "domain", reason |-> "marketing domain"]
        ELSE NoIntent

\* classifyEmailIntent up to the AI call: the decided intent, or NoIntent when
\* the classifier has to be asked
IntentByRules(institution, subject, bodyPreview) ==
    LET fullText == toLowerCase(subject) \o " " \o toLowerCase(bodyPreview)
        promo == FirstKeyword(PROMOTIONAL_KEYWORDS, fullText)
        tx == FirstKeyword(transactionKeywords, fullText)
    IN  IF promo # NULL
        THEN [type |-> "promotional", confidence |-> "keyword", reason |-> promo]
        ELSE IF institution.isMarketing
        THEN [type |-> "promotional", confidence |-> "domain", reason |-> "marketing domain"]
        ELSE IF tx # NULL
        THEN [type |-> "transaction", confidence |-> "keyword", reason |-> tx]
        ELSE NoIntent

\* classifyEmailIntent from the AI call on
IntentFromAI(result) ==
    IF AIRaises(result)
    THEN [type |-> "transaction", confidence |-> "fallback", reason |-> "AI error"]
    ELSE LET response == IF result.kind = "text" THEN trim(toLowerCase(result.text)) ELSE ""
             isTransaction == includes(response, "transaction")
         IN  [type |-> IF isTransaction THEN "transaction" ELSE "promotional",
              confidence |-> "ai",
              reason |-> "AI: " \o response]

(***************************************************************************)
(* Step 3: transaction data                                                *)
(***************************************************************************)

\* detectTransactionTypeWithAI returning the normalised answer without
\* looking it up in VALID_TRANSACTION_TYPES
TypeFromAI_Unvalidated(result) ==
    IF AIRaises(result) \/ result.kind = "missing" THEN NULL
    ELSE keepChars(toLowerCase(trim(result.text)), TypeIdChars)

\* detectTransactionTypeWithAI from the AI call on: a valid type, or NULL
TypeFromAI(result) ==
    IF AIRaises(result) \/ result.kind = "missing" THEN NULL
    ELSE LET type == keepChars(toLowerCase(trim(result.text)), TypeIdChars)
         IN  IF type \in Range(VALID_TRANSACTION_TYPES) THEN type ELSE NULL

AnyIn(text, kws) == \E t \in {text} : \E k \in kws : includes(t, k)

\* the keyword chain of parseTransaction without its first branch
KeywordType_NoTransferReceived(subjectLower, bodyLower) ==
    IF AnyIn(subjectLower, {"te pagaron", "recibiste un pago", "te depositaron", "pago recibido"})
    THEN "payment_received"
    ELSE IF AnyIn(subjectLower, {"te devolvieron", "reembolso"})
            \/ includes(bodyLower, "devolución a tu favor")
    THEN "refund_received"
    ELSE IF AnyIn(subjectLower, {"ingreso", "cargaste", "acreditamos", "cashback",
                                 "bonificación", "ganaste"})
    THEN "deposit"
    ELSE IF AnyIn(subjectLower, {"transferiste", "enviaste", "transferencia enviada", "fue enviada"})
    THEN "transfer_sent"
    ELSE IF AnyIn(subjectLower, {"pagaste", "compraste", "qr", "suscripción", "cobro automático",
                                 "cuota", "débito", "pago enviado"})
    THEN "payment_sent"
    ELSE IF AnyIn(subjectLower, {"devolviste", "reembolsaste"})
    THEN "refund_sent"
    ELSE IF includes(subjectLower, "retiro") \/ includes(bodyLower, "retiro")
            \/ includes(subjectLower, "extracción")
    THEN "withdrawal"
    ELSE "unknown"

\* the keyword chain with the money-out types looked for before the money-in
\* types
KeywordType_MoneyOutFirst(subjectLower, bodyLower) ==
    IF AnyIn(subjectLower, {"transferiste", "enviaste", "transferencia enviada", "fue enviada"})
    THEN "transfer_sent"
    ELSE IF AnyIn(subjectLower, {"pagaste", "compraste", "qr", "suscripción", "cobro automático",
                                 "cuota", "débito", "pago enviado"})
    THEN "payment_sent"
    ELSE IF AnyIn(subjectLower, {"devolviste", "reembolsaste"})
    THEN "refund_sent"
    ELSE IF includes(subjectLower, "retiro") \/ includes(bodyLower, "retiro")
            \/ includes(subjectLower, "extracción")
    THEN "withdrawal"
    ELSE IF AnyIn(subjectLower, {"recibiste", "te transfirieron", "te enviaron", "transferencia recibida"})
    THEN "transfer_received"
    ELSE IF AnyIn(subjectLower, {"te pagaron", "recibiste un pago", "te depositaron", "pago recibido"})
    THEN "payment_received"
    ELSE IF AnyIn(subjectLower, {"te devolvieron", "reembolso"})
            \/ includes(bodyLower, "devolución a tu favor")
    THEN "refund_received"
    ELSE IF AnyIn(subjectLower, {"ingreso", "cargaste", "acreditamos", "cashback",
                                 "bonificación", "ganaste"})
    THEN "deposit"
    ELSE "unknown"

\* the keyword chain of parseTransaction
KeywordType(subjectLower, bodyLower) ==
    IF AnyIn(subjectLower, {"recibiste", "te transfirieron", "te enviaron", "transferencia recibida"})
    THEN "transfer_received"
    ELSE IF AnyIn(subjectLower, {"te pagaron", "recibiste un pago", "te depositaron", "pago recibido"})
    THEN "payment_received"
    ELSE IF AnyIn(subjectLower, {"te devolvieron", "reembolso"})
            \/ includes(bodyLower, "devolución a tu favor")
    THEN "refund_received"
    ELSE IF AnyIn(subjectLower, {"ingreso", "cargaste", "acreditamos", "cashback",
                                 "bonificación", "ganaste"})
    THEN "deposit"
    ELSE IF AnyIn(subjectLower, {"transferiste", "enviaste", "transferencia enviada", "fue enviada"})
    THEN "transfer_sent"
    ELSE IF AnyIn(subjectLower, {"pagaste", "compraste", "qr", "suscripción", "cobro automático",
                                 "cuota", "débito", "pago enviado"})
    THEN "payment_sent"
    ELSE IF AnyIn(subjectLower, {"devolviste", "reembolsaste"})
    THEN "refund_sent"
    ELSE IF includes(subjectLower, "retiro") \/ includes(bodyLower, "retiro")
            \/ includes(subjectLower, "extracción")
    THEN "withdrawal"
    ELSE "unknown"

\* parseArgentineAmount that keeps the dots of a string without decimals, so
\* that parseFloat reads the first dot as the decimal point: "2.500" -> 250
parseArgentineAmount_DotDecimal(str) ==
    LET cleaned == trim(str)
        n == Len(cleaned)
        decimal == /\ n >= 3
                   /\ CharAt(cleaned, n - 2) = ","
                   /\ CharAt(cleaned, n - 1) \in Digits
                   /\ CharAt(cleaned, n) \in Digits
        whole == RunLen(cleaned, 1, Digits)
        decimals == Min(2, RunLen(cleaned, whole + 2, Digits))
        fraction == IF decimals = 0 THEN "" ELSE SubSeq(cleaned, whole + 2, whole + 1 + decimals)
    IN  IF decimal
        THEN 100 * digitsValue(keepChars(SubSeq(cleaned, 1, n - 3), Digits))
             + digitsValue(SubSeq(cleaned, n - 1, n))
        ELSE 100 * digitsValue(SubSeq(cleaned, 1, whole))
             + (IF Len(fraction) = 1 THEN 10 ELSE 1) * digitsValue(fraction)

\* parseArgentineAmount without the decimal rule: every separator is removed,
\* so that "1.500,50" reads as 150050 pesos
parseArgentineAmount_NoDecimals(str) ==
    100 * digitsValue(keepChars(trim(str), Digits))

\* "1.500,50" -> 150050, "1.500" -> 150000 (cents); 0 when parseFloat gives NaN;
\* str is a capture of the amount patterns
parseArgentineAmount(str) ==
    LET cleaned == trim(str)
        n == Len(cleaned)
        decimal == /\ n >= 3
                   /\ CharAt(cleaned, n - 2) = ","
                   /\ CharAt(cleaned, n - 1) \in Digits
                   /\ CharAt(cleaned, n) \in Digits
    IN  IF decimal
        THEN 100 * digitsValue(keepChars(SubSeq(cleaned, 1, n - 3), Digits))
             + digitsValue(SubSeq(cleaned, n - 1, n))
        ELSE 100 * digitsValue(keepChars(cleaned, Digits))

\* the capture of ([\d.]+(?:,\d{2})?) at 1-based position i of text, "" when
\* the group does not match there
AmountCapture(text, i) ==
    LET n == RunLen(text, i, AmountChars)
        cents == /\ CharAt(text, i + n) = ","
                 /\ CharAt(text, i + n + 1) \in Digits
                 /\ CharAt(text, i + n + 2) \in Digits
    IN  IF n = 0 THEN ""
        ELSE SubSeq(text, i, i + n - 1 + (IF cents THEN 3 ELSE 0))

\* the captures of /\$\s*([\d.]+(?:,\d{2})?)/g and /ARS\s*([\d.]+(?:,\d{2})?)/gi
AmountMatches(text) ==
    LET matches[t \in STRING] ==
            LET after(i, len) == i + len + RunLen(t, i + len, WhiteSpace)
                dollar == {i \in 1..Len(t) : CharAt(t, i) = "$"}
                ars == {i \in 1..Len(t) : toLowerCase(SubSeq(t, i, Min(i + 2, Len(t)))) = "ars"}
            IN  {AmountCapture(t, after(i, 1)) : i \in dollar}
                \cup {AmountCapture(t, after(i, 3)) : i \in ars}
    IN  matches[text]

\* extractAmount returning at the first match of the first pattern that matches
extractAmount_FirstMatch(text) ==
    LET first[t \in STRING] ==
            LET after(i, len) == i + len + RunLen(t, i + len, WhiteSpace)
                dollar == {i \in 1..Len(t) :
                               CharAt(t, i) = "$" /\ AmountCapture(t, after(i, 1)) # ""}
                ars == {i \in 1..Len(t) :
                            /\ toLowerCase(SubSeq(t, i, Min(i + 2, Len(t)))) = "ars"
                            /\ AmountCapture(t, after(i, 3)) # ""}
                leftmost(starts) == CHOOSE i \in starts : \A j \in starts : i <= j
            IN  IF dollar # {}
                THEN parseArgentineAmount(AmountCapture(t, after(leftmost(dollar), 1)))
                ELSE IF ars # {}
                THEN parseArgentineAmount(AmountCapture(t, after(leftmost(ars), 3)))
                ELSE 0
    IN  first[text]

\* the largest parsed amount of all matches, 0 without a match (cents)
extractAmount(text) ==
    LET max[amounts \in SUBSET Nat] == CHOOSE a \in amounts : \A b \in amounts : a >= b
    IN  max[{parseArgentineAmount(c) : c \in AmountMatches(text) \ {""}} \cup {0}]

\* [A-Za-zÀ-ÿ] and [A-Za-zÀ-ÿ0-9], on the alphabet of the model's texts
NameFirst == UpperAlpha \cup LowerAlpha

NameRest == NameFirst \cup WhiteSpace

ShopFirst == NameFirst \cup Digits

ShopRest == ShopFirst \cup WhiteSpace

\* [:\s*], [:\s] and [:\s#]
FieldSeparators == WhiteSpace \cup {":", "*"}

LabelSeparators == WhiteSpace \cup {":"}

ReferenceSeparators == WhiteSpace \cup {":", "#"}

\* RunLen, looking at no more than max characters
RunLenUpTo(s, i, cls, max) ==
    LET run[t \in STRING, k \in Int, m \in Int] ==
            IF m > 0 /\ k >= 1 /\ k <= Len(t) /\ CharAt(t, k) \in cls
            THEN 1 + run[t, k + 1, m - 1]
            ELSE 0
    IN  run[s, i, max]

\* the literal w at 1-based position i of the lower-cased text (flag i)
LitAt(lower, i, w) ==
    /\ i >= 1
    /\ i + Len(w) - 1 <= Len(lower)
    /\ SubSeq(lower, i, i + Len(w) - 1) = w

\* the position after one of the literals ws at i, 0 when none is there
AfterLit(lower, i, ws) ==
    IF \E w \in ws : LitAt(lower, i, w)
    THEN i + Len(CHOOSE w \in ws : LitAt(lower, i, w))
    ELSE 0

\* the position after a greedy run of cls at i
Skip(text, i, cls) == i + RunLen(text, i, cls)

\* (?:\s*\$|\s*por|\s*$|\s*\.) at q
EndOfName(text, lower, q) ==
    LET r == Skip(text, q, WhiteSpace)
    IN  \/ CharAt(text, r) = "$"
        \/ LitAt(lower, r, "por")
        \/ r > Len(text)
        \/ CharAt(text, r) = "."

\* \*?(?:\s*Entidad|\s*$|\s*\n) at q
EndOfField(text, lower, q) ==
    LET tail(t) == LET r == Skip(text, t, WhiteSpace)
                   IN  \/ LitAt(lower, r, "entidad")
                       \/ r > Len(text)
                       \/ \E j \in t..(r - 1) : CharAt(text, j) = "\n"
    IN  (CharAt(text, q) = "*" /\ tail(q + 1)) \/ tail(q)

\* \s+te\s+(?:transfirió|pagó|envió) at q
TeVerb(text, lower, q) ==
    LET r == Skip(text, q, WhiteSpace)
        v == Skip(text, r + 2, WhiteSpace)
    IN  /\ r > q
        /\ LitAt(lower, r, "te")
        /\ v > r + 2
        /\ \E w \in {"transfirió", "pagó", "envió"} : LitAt(lower, v, w)

\* what follows a lazy capture, by pattern: "field" (pattern 1), "name"
\* (patterns 2 and 3), "verb" (pattern 4)
SuffixAt(suffix, text, lower, q) ==
    CASE suffix = "field" -> EndOfField(text, lower, q)
      [] suffix = "name" -> EndOfName(text, lower, q)
      [] OTHER -> TeVerb(text, lower, q)

\* ([first][rest]{lo,hi}?) at p, lazy: the shortest capture after which Suffix
\* matches; NULL when there is none
LazyCapture(text, lower, p, first, rest, lo, hi, suffix) ==
    LET shortest[run \in Nat, n \in Nat] ==
            IF n > run THEN NULL
            ELSE IF SuffixAt(suffix, text, lower, p + 1 + n) THEN SubSeq(text, p, p + n)
            ELSE shortest[run, n + 1]
    IN  IF CharAt(text, p) \notin first THEN NULL
        ELSE shortest[RunLenUpTo(text, p + 1, rest, hi), lo]

\* ([first][rest]{lo,hi}) at p, greedy and last in its pattern
GreedyCapture(text, p, first, rest, lo, hi) ==
    LET capture[run \in Nat] == IF run < lo THEN NULL ELSE SubSeq(text, p, p + run)
    IN  IF CharAt(text, p) \notin first THEN NULL
        ELSE capture[RunLenUpTo(text, p + 1, rest, hi)]

\* each counterparty pattern at start position i: its capture, or NULL
CounterpartyAt(k, text, lower, i) ==
    CASE k = 1 ->
           \* nombre\s+y\s+apellido[:\s*]+\*?(...{2,40}?)\*?(?:\s*Entidad|\s*$|\s*\n)
           LET a == Skip(text, i + 6, WhiteSpace)
               b == Skip(text, a + 1, WhiteSpace)
               c == Skip(text, b + 8, FieldSeparators)
           IN  IF /\ LitAt(lower, i, "nombre") /\ a > i + 6
                  /\ LitAt(lower, a, "y") /\ b > a + 1
                  /\ LitAt(lower, b, "apellido") /\ c > b + 8
               THEN LazyCapture(text, lower, c, NameFirst, NameRest, 2, 40, "field")
               ELSE NULL
      [] k = 2 ->
           \* (?:transferiste|enviaste|transferencia)\s+a\s+(...{1,30}?)(?:\s*\$|\s*por|\s*$|\s*\.)
           LET w == AfterLit(lower, i, {"transferiste", "enviaste", "transferencia"})
               a == Skip(text, w, WhiteSpace)
               b == Skip(text, a + 1, WhiteSpace)
           IN  IF w > 0 /\ a > w /\ LitAt(lower, a, "a") /\ b > a + 1
               THEN LazyCapture(text, lower, b, NameFirst, NameRest, 1, 30, "name")
               ELSE NULL
      [] k = 3 ->
           \* (?:de|a|para)\s+(...{1,30}?)(?:\s*\$|\s*por|\s*$|\s*\.)
           LET w == AfterLit(lower, i, {"de", "a", "para"})
               a == Skip(text, w, WhiteSpace)
           IN  IF w > 0 /\ a > w
               THEN LazyCapture(text, lower, a, NameFirst, NameRest, 1, 30, "name")
               ELSE NULL
      [] k = 4 ->
           \* (...{1,30}?)\s+te\s+(?:transfirió|pagó|envió)
           LazyCapture(text, lower, i, NameFirst, NameRest, 1, 30, "verb")
      [] k = 5 ->
           \* (?:destinatario|receptor|beneficiario)[:\s]+(...{1,30})
           LET w == AfterLit(lower, i, {"destinatario", "receptor", "beneficiario"})
               a == Skip(text, w, LabelSeparators)
           IN  IF w > 0 /\ a > w
               THEN GreedyCapture(text, a, NameFirst, NameRest, 1, 30)
               ELSE NULL
      [] OTHER ->
           \* (?:pagaste|compraste)\s+en\s+(...{1,30})
           LET w == AfterLit(lower, i, {"pagaste", "compraste"})
               a == Skip(text, w, WhiteSpace)
               b == Skip(text, a + 2, WhiteSpace)
           IN  IF w > 0 /\ a > w /\ LitAt(lower, a, "en") /\ b > a + 2
               THEN GreedyCapture(text, b, ShopFirst, ShopRest, 1, 30)
               ELSE NULL

\* fullText.match(pattern k): the capture of the leftmost match, or NULL
CounterpartyMatch(k, text, lower) ==
    LET leftmost[starts \in SUBSET Nat] ==
            IF starts = {} THEN NULL
            ELSE CounterpartyAt(k, text, lower, CHOOSE i \in starts : \A j \in starts : i <= j)
    IN  leftmost[{i \in 1..Len(text) : CounterpartyAt(k, text, lower, i) # NULL}]

NumCounterpartyPatterns == 6

\* the loop over the patterns from pattern k on: the first that matches with
\* a trimmed capture longer than one character decides
CounterpartyFrom(k, text, lower) ==
    LET from[j \in Nat] ==
            LET decide[match \in STRING] ==
                    IF match # NULL /\ Len(trim(match)) > 1 THEN trim(match) ELSE from[j + 1]
            IN  IF j > NumCounterpartyPatterns THEN NULL
                ELSE decide[CounterpartyMatch(j, text, lower)]
    IN  from[k]

extractCounterparty(text) ==
    LET from[t \in STRING, lower \in STRING] == CounterpartyFrom(1, t, lower)
    IN  from[text, toLowerCase(text)]

\* /(?:operación|referencia|id|comprobante)[:\s#]*(\d{5,})/i : the capture of
\* the leftmost match, or NULL
MinReferenceDigits == 5

extractReferenceId(text) ==
    LET \* the digits captured by a match that starts at position i, "" without one
        digitsAt(t, lower, i) ==
            LET w == AfterLit(lower, i, {"operación", "referencia", "id", "comprobante"})
                a == Skip(t, w, ReferenceSeparators)
            IN  IF w > 0 THEN SubSeq(t, a, a + RunLen(t, a, Digits) - 1) ELSE ""
        matches(t, lower, i) == Len(digitsAt(t, lower, i)) >= MinReferenceDigits
        reference[t \in STRING, lower \in STRING] ==
            IF \E i \in 1..Len(t) : matches(t, lower, i)
            THEN digitsAt(t, lower, CHOOSE i \in 1..Len(t) :
                                        /\ matches(t, lower, i)
                                        /\ \A j \in 1..(i - 1) : ~matches(t, lower, j))
            ELSE NULL
    IN  reference[text, toLowerCase(text)]

\* parseTransaction after detectTransactionTypeWithAI returned aiType (NULL in
\* the single-institution worker, which has no such call)
NoTransaction ==
    [type |-> NULL, amount |-> 0, currency |-> NULL, counterparty |-> NULL,
     description |-> NULL, referenceId |-> NULL]

\* the type: the classifier's when it gave a valid one, else the keywords'
TransactionType(aiType, keywordType) ==
    IF aiType # NULL /\ aiType # "" THEN aiType ELSE keywordType

\* amount, counterparty and reference of subject + ' ' + body
TransactionFields(subject, body) ==
    LET fullText == subject \o " " \o body
    IN  [amount |-> extractAmount(fullText),
         counterparty |-> extractCounterparty(fullText),
         referenceId |-> extractReferenceId(fullText)]

TransactionResult(type, fields) ==
    [type |-> type,
     amount |-> fields.amount,
     currency |-> "ARS",
     counterparty |-> fields.counterparty,
     description |-> NULL,
     referenceId |-> fields.referenceId]

parseTransaction(aiType, subject, body) ==
    TransactionResult(
        TransactionType(aiType, KeywordType(toLowerCase(subject), toLowerCase(body))),
        TransactionFields(subject, body))

(***************************************************************************)
(* Category and fingerprint                                                *)
(***************************************************************************)

\* [counterparty, description, subject].filter(Boolean).join(' ').trim()
CategoryContext(counterparty, description, subject) ==
    LET parts == SelectSeq(<<counterparty, description, subject>>,
                           LAMBDA p : p # NULL /\ p # "")
        joined == IF Len(parts) = 0 THEN ""
                  ELSE IF Len(parts) = 1 THEN parts[1]
                  ELSE IF Len(parts) = 2 THEN parts[1] \o " " \o parts[2]
                  ELSE parts[1] \o " " \o parts[2] \o " " \o parts[3]
    IN  trim(joined)

\* categorizeWithAI returning the cleaned answer whatever it is
CategoryFromAI_Unvalidated(result) ==
    IF AIRaises(result) \/ result.kind = "missing" THEN "miscellaneous-other"
    ELSE keepChars(toLowerCase(trim(result.text)), CategoryIdChars)

\* categorizeWithAI from the AI call on
CategoryFromAI(result) ==
    IF AIRaises(result) \/ result.kind = "missing" THEN "miscellaneous-other"
    ELSE LET category == keepChars(toLowerCase(trim(result.text)), CategoryIdChars)
         IN  IF category \in Range(VALID_CATEGORIES) THEN category
             ELSE "miscellaneous-other"

expenseTypes == {"transfer_sent", "payment_sent", "withdrawal", "refund_sent"}

\* SHA-256 as an injective tag of its input string
createHash(str) == <<"sha256", str>>

\* the fingerprint takes emailBody.substring(0, 200)
FingerprintLen == 200

\* the fingerprint taken from the body alone
emailFingerprint_NoSubject(subject, emailBody) == substring(emailBody, 0, FingerprintLen)

emailFingerprint(subject, emailBody) == subject \o substring(emailBody, 0, FingerprintLen)

(***************************************************************************)
(* Inputs of one invocation                                                *)
(***************************************************************************)

\* how far around the last position that still fits into the preview the
\* promotional keyword of a padded body is placed
MaxShift == 1

Variants == {"multi", "single"}

Recipients ==
    {"user_123@jamty.xyz", "User_AB9@jamty.xyz", "admin@jamty.xyz", "user_@jamty.xyz"}

Senders ==
    {"info@mercadopago.com",
     "Mercado Pago <INFO@mercadopago.com>",
     "marketing@mercadopago.com",
     "avisos@uala.com.ar",
     "promo@marketing.uala.com.ar",
     "unknown@random.com",
     "forwarding-noreply@google.com"}

Subjects ==
    {"Recibiste una transferencia",
     "Aviso de tu cuenta",
     "Pagaste $1.500,50 en Tienda Sol",
     ""}

\* a body whose promotional keyword starts after n filler characters
PaddedBody(n) == repeat("-", n) \o "cashback disponible por $50"

KeywordLen == Len("cashback disponible")

PaddedBodies ==
    {PaddedBody(n) : n \in (PreviewLen - KeywordLen - MaxShift)..(PreviewLen - KeywordLen + MaxShift)}

Bodies ==
    {"Te enviaron $2.500",
     "Hola, tu resumen ya está listo.",
     "Tenés Cashback Disponible en tu cuenta",
     "Tu retiro de efectivo fue acreditado"}

\* subject and emailBody stand for extractHeader(rawEmail, 'Subject') || ''
\* and extractEmailBody(rawEmail); rawOk says whether reading message.raw
\* succeeds
Messages ==
    [to : Recipients, from : Senders, subject : Subjects, emailBody : Bodies,
     rawOk : BOOLEAN]
    \cup [to : {"user_123@jamty.xyz"},
          from : {"info@mercadopago.com", "avisos@uala.com.ar", "promo@marketing.uala.com.ar"},
          subject : {"Aviso de tu cuenta", "Recibiste una transferencia"},
          emailBody : PaddedBodies,
          rawOk : {TRUE}]

IntentAnswers ==
    {AIText("transaction"), AIText(" Promotional.\n"), AIText("It is a Transaction"),
     AIMissing, AINull, AIThrow}

TypeAnswers ==
    {AIText("transfer_received"), AIText("payment_sent"), AIText(" Transfer_Sent.\n"),
     AIText("a transfer"), AIText(""), AIMissing, AINull, AIThrow}

CategoryAnswers ==
    {AIText("food-dining"), AIText("Shopping-Clothing."), AIText("groceries"),
     AIMissing, AIThrow}

\* answers to a POST: a 2xx with a JSON body, a 2xx whose body is not JSON
\* (response.json() rejects), another status, no answer at all (fetch rejects)
PostAnswers == {"2xx", "2xx_not_json", "non_2xx", "network_error"}

(***************************************************************************)
(* State of one invocation of email(message, env, ctx)                     *)
(***************************************************************************)

VARIABLES
    variant,      \* which worker runs
    message,      \* the inbound message
    pc,           \* where the handler is
    outcome,      \* "running", "returned", or "threw" (rejected to its caller)
    userId,
    institution,
    intent,
    transaction,
    category,
    emailHash,
    error,        \* the message of the error caught at the handler's catch
    calls,        \* the outbound calls made so far, in order, each with its answer
    fnCall,       \* a function of the worker called on its own, with its arguments
    fnResult,     \* what that call returned
    rows,         \* backend: the transactions table
    balance,      \* backend: users.balance of the registered user
    failures,     \* backend: the number of rows of parsing_failures
    requests,     \* backend: the webhook requests in progress
    migrated      \* backend: whether transactions has the columns email_hash and
                  \* category, which the webhook writes and schema.sql does not create

handlerVars ==
    <<variant, message, pc, outcome, userId, institution, intent, transaction,
      category, emailHash, error, calls>>

parserVars == <<fnCall, fnResult>>

backendVars == <<rows, balance, failures, requests, migrated>>

vars == <<handlerVars, parserVars, backendVars>>

subject == message.subject

emailBody == message.emailBody

\* a call that has not been answered yet has the answer "pending"; a classifier
\* call that will never settle has the answer "never"
AICall(purpose) == [to |-> "ai", purpose |-> purpose, answer |-> "pending", text |-> ""]

WebhookPost(data) == [to |-> "webhook", data |-> data, answer |-> "pending"]

ForwardPost(data) == [to |-> "forward-verification", data |-> data, answer |-> "pending"]

LastCall == calls[Len(calls)]

\* the pending call is answered
Answered(answer) == calls' = [calls EXCEPT ![Len(calls)].answer = answer]

AIAnswered(result) ==
    calls' = [calls EXCEPT ![Len(calls)].answer = result.kind,
                           ![Len(calls)].text = result.text]

\* no function is called on its own; fnResult is <<>> until the call returns
\* and <<value>> afterwards
ParserIdle ==
    /\ fnCall = [fn |-> NULL]
    /\ fnResult = <<>>

\* no webhook request is under way
BackendIdle ==
    /\ rows = <<>>
    /\ balance = 0
    /\ failures = 0
    /\ requests = <<>>
    /\ migrated = FALSE

Init ==
    /\ variant \in Variants
    /\ message \in Messages
    /\ pc = "start"
    /\ outcome = "running"
    /\ userId = NULL
    /\ institution = NoInstitution
    /\ intent = NoIntent
    /\ transaction = NoTransaction
    /\ category = NULL
    /\ emailHash = NULL
    /\ error = NULL
    /\ calls = <<>>
    /\ ParserIdle
    /\ BackendIdle

\* the handler returns
Return ==
    /\ pc' = "done"
    /\ outcome' = "returned"

\* sendToBackend(data) is called and awaited inside the handler's try
Send(data) ==
    /\ calls' = Append(calls, WebhookPost(data))
    /\ pc' = "await_post"

\* env.AI.run is called and awaited
AskAI(purpose, next) ==
    /\ calls' = Append(calls, AICall(purpose))
    /\ pc' = next

(***************************************************************************)
(* The handler, step by step                                               *)
(***************************************************************************)

\* the handler without the return for a recipient that names no user
CheckRecipient_NoReturn ==
    /\ pc = "start"
    /\ userId' = extractUserId(message.to)
    /\ pc' = "read"
    /\ UNCHANGED <<parserVars, backendVars,
                   variant, message, outcome, institution, intent, transaction, category,
                   emailHash, error, calls>>

\* 1. user id from the "To" address; no user id: silently dropped
CheckRecipient ==
    /\ pc = "start"
    /\ userId' = extractUserId(message.to)
    /\ IF userId' = NULL
       THEN Return
       ELSE pc' = "read" /\ UNCHANGED outcome
    /\ UNCHANGED <<parserVars, backendVars,
                   variant, message, institution, intent, transaction, category,
                   emailHash, error, calls>>

\* 2./3. the raw message is read and parsed; a failing read is thrown
ReadRaw ==
    /\ pc = "read"
    /\ IF message.rawOk
       THEN pc' = "route" /\ UNCHANGED error
       ELSE pc' = "catch" /\ error' = "stream error"
    /\ UNCHANGED <<parserVars, backendVars,
                   variant, message, outcome, userId, institution, intent, transaction,
                   category, emailHash, calls>>

\* 4. a verification sender is diverted to the forward-verification endpoint
\* (the verificationLink of the payload is not modelled)
Route ==
    /\ pc = "route"
    /\ IF isVerificationSender(message.from)
       THEN /\ calls' = Append(calls, ForwardPost([userId |-> userId, subject |-> subject,
                                                   htmlBody |-> emailBody]))
            /\ pc' = "await_forward"
       ELSE /\ pc' = "identify"
            /\ UNCHANGED calls
    /\ UNCHANGED <<parserVars, backendVars,
                   variant, message, outcome, userId, institution, intent, transaction,
                   category, emailHash, error>>

\* the forward call awaited without its own try/catch: a rejected fetch is
\* thrown to the handler's catch
ForwardResponds_Uncaught ==
    /\ pc = "await_forward"
    /\ \E answer \in PostAnswers :
           /\ Answered(answer)
           /\ IF answer = "network_error"
              THEN pc' = "catch" /\ error' = "fetch failed" /\ UNCHANGED outcome
              ELSE Return /\ UNCHANGED error
    /\ UNCHANGED <<parserVars, backendVars,
                   variant, message, userId, institution, intent, transaction, category,
                   emailHash>>

\* the forward call settles; whatever it does is logged and the handler returns
ForwardResponds ==
    /\ pc = "await_forward"
    /\ \E answer \in PostAnswers : Answered(answer)
    /\ Return
    /\ UNCHANGED <<parserVars, backendVars,
                   variant, message, userId, institution, intent, transaction, category,
                   emailHash, error>>

\* Step 1 reporting an unknown sender to the backend instead of dropping it
IdentifyInstitution_Reports ==
    /\ pc = "identify"
    /\ variant = "multi"
    /\ institution' = identifyInstitution(message.from)
    /\ IF institution' = NoInstitution
       THEN Send([userId |-> userId, valid |-> FALSE,
                  reason |-> "not_from_known_institution",
                  from |-> message.from, subject |-> subject])
       ELSE pc' = "classify" /\ UNCHANGED calls
    /\ UNCHANGED <<parserVars, backendVars,
                   variant, message, outcome, userId, intent, transaction, category,
                   emailHash, error>>

\* Step 1 of the multi-institution worker: unknown senders are dropped
IdentifyInstitution ==
    /\ pc = "identify"
    /\ variant = "multi"
    /\ institution' = identifyInstitution(message.from)
    /\ IF institution' = NoInstitution
       THEN Return
       ELSE pc' = "classify" /\ UNCHANGED outcome
    /\ UNCHANGED <<parserVars, backendVars,
                   variant, message, userId, intent, transaction, category, emailHash,
                   error, calls>>

\* step 5 of the single-institution worker: other senders are reported
CheckMercadoPago ==
    /\ pc = "identify"
    /\ variant = "single"
    /\ IF isFromMercadoPago(message.from)
       THEN pc' = "parse" /\ UNCHANGED calls
       ELSE Send([userId |-> userId, valid |-> FALSE, reason |-> "not_mercadopago",
                  from |-> message.from, subject |-> subject])
    /\ UNCHANGED <<parserVars, backendVars,
                   variant, message, outcome, userId, institution, intent, transaction,
                   category, emailHash, error>>

\* Step 2: classifyEmailIntent up to its AI call
ClassifyIntent ==
    /\ pc = "classify"
    /\ LET byRules == IntentByRules(institution, subject, substring(emailBody, 0, PreviewLen))
       IN  IF byRules # NoIntent
           THEN /\ intent' = byRules
                /\ pc' = "intent_done"
                /\ UNCHANGED calls
           ELSE /\ AskAI("intent", "await_intent")
                /\ UNCHANGED intent
    /\ UNCHANGED <<parserVars, backendVars,
                   variant, message, outcome, userId, institution, transaction, category,
                   emailHash, error>>

\* classifyEmailIntent asking the classifier again when the call fails
IntentAIResponds_RetryOnError ==
    /\ pc = "await_intent"
    /\ LastCall.answer = "pending"
    /\ \E result \in IntentAnswers :
           IF AIRaises(result)
           THEN /\ calls' = Append([calls EXCEPT ![Len(calls)].answer = result.kind],
                                   AICall("intent"))
                /\ UNCHANGED <<intent, pc>>
           ELSE /\ intent' = IntentFromAI(result)
                /\ AIAnswered(result)
                /\ pc' = "intent_done"
    /\ UNCHANGED <<parserVars, backendVars,
                   variant, message, outcome, userId, institution, transaction, category,
                   emailHash, error>>

\* the intent call settles
IntentAIResponds ==
    /\ pc = "await_intent"
    /\ LastCall.answer = "pending"
    /\ \E result \in IntentAnswers :
           /\ intent' = IntentFromAI(result)
           /\ AIAnswered(result)
    /\ pc' = "intent_done"
    /\ UNCHANGED <<parserVars, backendVars,
                   variant, message, outcome, userId, institution, transaction, category,
                   emailHash, error>>

\* the handler parsing every message, whatever the intent
BranchOnIntent_AlwaysParses ==
    /\ pc = "intent_done"
    /\ pc' = "parse"
    /\ UNCHANGED <<parserVars, backendVars,
                   variant, message, outcome, userId, institution, intent, transaction,
                   category, emailHash, error, calls>>

\* a promotional message is reported as such and not parsed
BranchOnIntent ==
    /\ pc = "intent_done"
    /\ IF intent.type = "promotional"
       THEN Send([userId |-> userId, valid |-> TRUE, isPromotional |-> TRUE,
                  institution |-> institution.id, institutionName |-> institution.name,
                  subject |-> subject, classificationReason |-> intent.reason])
       ELSE pc' = "parse" /\ UNCHANGED calls
    /\ UNCHANGED <<parserVars, backendVars,
                   variant, message, outcome, userId, institution, intent, transaction,
                   category, emailHash, error>>

\* Step 3, multi-institution worker: parseTransaction asks the AI for the type
StartParse ==
    /\ pc = "parse"
    /\ variant = "multi"
    /\ AskAI("type", "await_type")
    /\ UNCHANGED <<parserVars, backendVars,
                   variant, message, outcome, userId, institution, intent, transaction,
                   category, emailHash, error>>

\* the type call settles and parseTransaction runs to its end
TypeAIResponds ==
    /\ pc = "await_type"
    /\ LastCall.answer = "pending"
    /\ LET keywordType == KeywordType(toLowerCase(subject), toLowerCase(emailBody))
           fields == TransactionFields(subject, emailBody)
       IN  \E result \in TypeAnswers :
               /\ transaction' =
                      TransactionResult(TransactionType(TypeFromAI(result), keywordType), fields)
               /\ AIAnswered(result)
    /\ pc' = "parsed"
    /\ UNCHANGED <<parserVars, backendVars,
                   variant, message, outcome, userId, institution, intent, category,
                   emailHash, error>>

\* step 5 of the single-institution worker: parseTransaction by keywords only
ParseByKeywords ==
    /\ pc = "parse"
    /\ variant = "single"
    /\ transaction' = parseTransaction(NULL, subject, emailBody)
    /\ pc' = "parsed"
    /\ UNCHANGED <<parserVars, backendVars,
                   variant, message, outcome, userId, institution, intent, category,
                   emailHash, error, calls>>

ParseFailedRecord ==
    IF variant = "multi"
    THEN [userId |-> userId, valid |-> FALSE, institution |-> institution.id,
          reason |-> "parse_failed", subject |-> subject,
          bodyPreview |-> substring(emailBody, 0, PreviewLen)]
    ELSE [userId |-> userId, valid |-> FALSE, reason |-> "parse_failed",
          subject |-> subject, bodyPreview |-> substring(emailBody, 0, PreviewLen)]

\* the amount check letting an amount of 0 through
CheckAmount_NegativeOnly ==
    /\ pc = "parsed"
    /\ IF transaction.amount < 0
       THEN Send(ParseFailedRecord)
       ELSE pc' = "categorize" /\ UNCHANGED calls
    /\ UNCHANGED <<parserVars, backendVars,
                   variant, message, outcome, userId, institution, intent, transaction,
                   category, emailHash, error>>

\* no positive amount: reported as parse_failed
CheckAmount ==
    /\ pc = "parsed"
    /\ IF transaction.amount <= 0
       THEN Send(ParseFailedRecord)
       ELSE pc' = "categorize" /\ UNCHANGED calls
    /\ UNCHANGED <<parserVars, backendVars,
                   variant, message, outcome, userId, institution, intent, transaction,
                   category, emailHash, error>>

\* whether the worker calls categorizeWithAI for this transaction
Categorizes == variant = "multi" \/ transaction.type \in expenseTypes

\* categorizeWithAI up to its AI call (an empty context needs none)
Categorize ==
    /\ pc = "categorize"
    /\ IF ~Categorizes
       THEN /\ category' = NULL
            /\ pc' = "send"
            /\ UNCHANGED calls
       ELSE IF CategoryContext(transaction.counterparty, transaction.description, subject) = ""
       THEN /\ category' = "miscellaneous-other"
            /\ pc' = "send"
            /\ UNCHANGED calls
       ELSE /\ AskAI("category", "await_category")
            /\ UNCHANGED category
    /\ UNCHANGED <<parserVars, backendVars,
                   variant, message, outcome, userId, institution, intent, transaction,
                   emailHash, error>>

\* the category call settles
CategoryAIResponds ==
    /\ pc = "await_category"
    /\ LastCall.answer = "pending"
    /\ \E result \in CategoryAnswers :
           /\ category' = CategoryFromAI(result)
           /\ AIAnswered(result)
    /\ pc' = "send"
    /\ UNCHANGED <<parserVars, backendVars,
                   variant, message, outcome, userId, institution, intent, transaction,
                   emailHash, error>>

TransactionRecord(hash) ==
    LET common == [userId |-> userId, valid |-> TRUE, type |-> transaction.type,
                   amount |-> transaction.amount, currency |-> transaction.currency,
                   counterparty |-> transaction.counterparty,
                   description |-> transaction.description,
                   referenceId |-> transaction.referenceId,
                   emailHash |-> hash, category |-> category,
                   subject |-> subject, from |-> message.from]
    IN  IF variant = "multi"
        THEN common @@ [institution |-> institution.id, institutionName |-> institution.name,
                        institutionType |-> institution.type]
        ELSE common

\* the transaction record sent without a fingerprint
SendTransaction_NoFingerprint ==
    /\ pc = "send"
    /\ Send(TransactionRecord(NULL))
    /\ UNCHANGED <<parserVars, backendVars,
                   variant, message, outcome, userId, institution, intent, transaction,
                   category, emailHash, error>>

\* the fingerprint is computed and the transaction record is sent
SendTransaction ==
    /\ pc = "send"
    /\ emailHash' = createHash(emailFingerprint(subject, emailBody))
    /\ Send(TransactionRecord(emailHash'))
    /\ UNCHANGED <<parserVars, backendVars,
                   variant, message, outcome, userId, institution, intent, transaction,
                   category, error>>

\* what sendToBackend throws for an answer, NULL when it returns
SendError(answer) ==
    CASE answer = "2xx" -> NULL
      [] answer = "2xx_not_json" -> "Unexpected token"
      [] answer = "non_2xx" -> "Backend responded with an error status"
      [] OTHER -> "fetch failed"

\* the webhook answers a POST made in the try block: every such POST is
\* followed by a return, a failure is thrown to the handler's catch
WebhookResponds ==
    /\ pc = "await_post"
    /\ \E answer \in PostAnswers :
           /\ Answered(answer)
           /\ IF SendError(answer) = NULL
              THEN Return /\ UNCHANGED error
              ELSE pc' = "catch" /\ error' = SendError(answer) /\ UNCHANGED outcome
    /\ UNCHANGED <<parserVars, backendVars,
                   variant, message, userId, institution, intent, transaction, category,
                   emailHash>>

\* the catch block sending the record that failed once more
CatchError_Resend ==
    /\ pc = "catch"
    /\ calls' = Append(calls, IF calls # <<>> /\ LastCall.to = "webhook"
                              THEN WebhookPost(LastCall.data)
                              ELSE WebhookPost([valid |-> FALSE, reason |-> "worker_error",
                                                error |-> error]))
    /\ pc' = "await_catch_post"
    /\ UNCHANGED <<parserVars, backendVars,
                   variant, message, outcome, userId, institution, intent, transaction,
                   category, emailHash, error>>

\* catch (error): the backend is told, best effort
CatchError ==
    /\ pc = "catch"
    /\ calls' = Append(calls, WebhookPost([valid |-> FALSE, reason |-> "worker_error",
                                           error |-> error]))
    /\ pc' = "await_catch_post"
    /\ UNCHANGED <<parserVars, backendVars,
                   variant, message, outcome, userId, institution, intent, transaction,
                   category, emailHash, error>>

\* the secondary POST awaited without its own try/catch
SecondaryOutcome_Uncaught(answer) ==
    IF answer = "2xx" THEN "returned" ELSE "threw"

\* try { await sendToBackend(...) } catch (e) { }: how the handler ends for
\* an answer to the secondary POST
SecondaryOutcome(answer) == "returned"

CatchPostResponds ==
    /\ pc = "await_catch_post"
    /\ \E answer \in PostAnswers :
           /\ Answered(answer)
           /\ outcome' = SecondaryOutcome(answer)
    /\ pc' = "done"
    /\ UNCHANGED <<parserVars, backendVars,
                   variant, message, userId, institution, intent, transaction, category,
                   emailHash, error>>

AwaitingAI == pc \in {"await_intent", "await_type", "await_category"}

\* env.AI.run is awaited without a deadline: a call that never settles leaves
\* the handler waiting
AINeverReturns ==
    /\ AwaitingAI
    /\ LastCall.answer = "pending"
    /\ Answered("never")
    /\ UNCHANGED <<parserVars, backendVars,
                   variant, message, pc, outcome, userId, institution, intent, transaction,
                   category, emailHash, error>>

Next ==
    \/ CheckRecipient
    \/ ReadRaw
    \/ Route
    \/ ForwardResponds
    \/ IdentifyInstitution
    \/ CheckMercadoPago
    \/ ClassifyIntent
    \/ IntentAIResponds
    \/ BranchOnIntent
    \/ StartParse
    \/ TypeAIResponds
    \/ ParseByKeywords
    \/ CheckAmount
    \/ Categorize
    \/ CategoryAIResponds
    \/ SendTransaction
    \/ WebhookResponds
    \/ CatchError
    \/ CatchPostResponds
    \/ AINeverReturns

Spec == Init /\ [][Next]_vars

\* the runtime runs every continuation that is ready, and every answer the
\* environment has decided to give arrives
FairSpec == Spec /\ WF_vars(Next)

(***************************************************************************)
(* The parser's functions called on their own                              *)
(***************************************************************************)

\* no message is being handled
HandlerIdle ==
    /\ variant = "multi"
    /\ message = [to |-> "", from |-> "", subject |-> "", emailBody |-> "", rawOk |-> TRUE]
    /\ pc = "done"
    /\ outcome = "returned"
    /\ userId = NULL
    /\ institution = NoInstitution
    /\ intent = NoIntent
    /\ transaction = NoTransaction
    /\ category = NULL
    /\ emailHash = NULL
    /\ error = NULL
    /\ calls = <<>>

\* amounts as the notices write them, and texts of one or two of them
AmountTexts ==
    LET pieces == {"$50", "$1.200", "$1.500,50", "$ 1.500,50", "$1.500", "ARS 2.000,00",
                   "ars 300", "$1.500,5", "$1.500,505", "$.", "1.000", "sin monto"}
    IN  pieces \cup {a \o " y " \o b : a, b \in pieces}

\* subjects and bodies to fingerprint: short ones, and bodies that differ in
\* one character around the last one the fingerprint takes
HashedMessages ==
    [subject : {"Pago", "Pagos", ""},
     emailBody : {"s recibido", " recibido"}
                 \cup {repeat("-", n) \o c :
                           n \in (FingerprintLen - 1 - MaxShift)..(FingerprintLen - 1 + MaxShift),
                           c \in {"A", "B"}}]

\* subjects with one keyword of a type's group, or with two in either order,
\* and subjects with none
TypedSubjects ==
    LET words == {"Recibiste", "Te pagaron", "Reembolso", "Ingreso", "Transferiste",
                  "Pagaste", "Devolviste", "Extracción"}
    IN  {"", "Aviso de tu cuenta"} \cup words \cup {a \o " y " \o b : a, b \in words}

TypedBodies == {"", "Hay una devolución a tu favor", "Tu retiro fue acreditado"}

\* From headers: registered senders as they are, with a display name and
\* in upper case, and texts that contain a registered sender without being it
FromTexts ==
    {"info@mercadopago.com", "info@mercadopago.com.ar",
     "Mercado Pago <INFO@mercadopago.com>", "marketing@mercadopago.com",
     "avisos@uala.com.ar", "promo@marketing.uala.com.ar",
     "x@notificaciones.uala.com.ar", "Ualá <a@brubank.com.ar>",
     "a@uala.com.ar <b@brubank.com.ar>", "alertas@icbc.com.ar",
     "ofertas@marketing.icbc.com.ar", "@uala.com.ar",
     "xinfo@mercadopago.com", "info@mercadopago.com <evil@x.com>",
     "evil@x.com <info@mercadopago.com>", "info@mercadopago.com.evil.org",
     "a@uala.com.ar.evil.org", "evil@xuala.com.ar", "uala.com.ar",
     "unknown@random.com", ""}

ParserCalls ==
    [fn : {"extractAmount"}, text : AmountTexts]
    \cup [fn : {"identifyInstitution", "isFromMercadoPago"}, from : FromTexts]
    \cup [fn : {"emailHash"}, first : HashedMessages, second : HashedMessages]
    \cup [fn : {"parseTransaction"}, subject : TypedSubjects, body : TypedBodies]

ParserInit ==
    /\ fnCall \in ParserCalls
    /\ fnResult = <<>>
    /\ HandlerIdle
    /\ BackendIdle

\* extractAmount(text)
ExtractAmount ==
    /\ fnCall.fn = "extractAmount"
    /\ fnResult = <<>>
    /\ fnResult' = <<extractAmount(fnCall.text)>>
    /\ UNCHANGED <<fnCall, handlerVars, backendVars>>

\* the fingerprints of two messages: createHash(subject + emailBody.substring(0, 200))
EmailHash ==
    /\ fnCall.fn = "emailHash"
    /\ fnResult = <<>>
    /\ fnResult' =
           <<createHash(emailFingerprint(fnCall.first.subject, fnCall.first.emailBody)),
             createHash(emailFingerprint(fnCall.second.subject, fnCall.second.emailBody))>>
    /\ UNCHANGED <<fnCall, handlerVars, backendVars>>

\* parseTransaction(subject, body) of the single-institution worker, which is
\* also what the other worker's does when the classifier gives no type
ParseTransaction ==
    /\ fnCall.fn = "parseTransaction"
    /\ fnResult = <<>>
    /\ fnResult' = <<parseTransaction(NULL, fnCall.subject, fnCall.body)>>
    /\ UNCHANGED <<fnCall, handlerVars, backendVars>>

\* identifyInstitution(from) of the multi-institution worker
IdentifyInstitutionCall ==
    /\ fnCall.fn = "identifyInstitution"
    /\ fnResult = <<>>
    /\ fnResult' = <<identifyInstitution(fnCall.from)>>
    /\ UNCHANGED <<fnCall, handlerVars, backendVars>>

\* isFromMercadoPago(from) of the single-institution worker
IsFromMercadoPagoCall ==
    /\ fnCall.fn = "isFromMercadoPago"
    /\ fnResult = <<>>
    /\ fnResult' = <<isFromMercadoPago(fnCall.from)>>
    /\ UNCHANGED <<fnCall, handlerVars, backendVars>>

ParserNext ==
    \/ IdentifyInstitutionCall
    \/ IsFromMercadoPagoCall
    \/ ExtractAmount
    \/ EmailHash
    \/ ParseTransaction

ParserSpec == ParserInit /\ [][ParserNext]_vars

(***************************************************************************)
(* The backend: app.post('/webhook') over the tables of schema.sql         *)
(***************************************************************************)

\* how many webhook requests are handled concurrently
NumRequests == 2

\* CREATE TYPE transaction_type AS ENUM (...)
transaction_type == Range(VALID_TRANSACTION_TYPES) \cup {"unknown"}

\* users.external_id of the one registered user
RegisteredUsers == {"123"}

\* the emails the worker made the records from: a notice; the notice of
\* another transaction with the same subject, whose body differs only after
\* the last character the fingerprint takes; a notice with another subject
NoticeEmails ==
    <<[subject |-> "Pago", emailBody |-> repeat("-", FingerprintLen) \o " Ref 12345678"],
      [subject |-> "Pago", emailBody |-> repeat("-", FingerprintLen) \o " Ref 87654321"],
      [subject |-> "Pagos", emailBody |-> repeat("-", FingerprintLen) \o " Ref 12345678"]>>

\* emailHash as the worker computes it for email k, as the text the JSON body
\* carries
NoticeHash(k) ==
    LET digest == createHash(emailFingerprint(NoticeEmails[k].subject,
                                              NoticeEmails[k].emailBody))
    IN  digest[1] \o ":" \o digest[2]

\* request bodies: transaction records of every type, with and without a
\* reference id and a fingerprint, failure records, and records for a
\* registered and an unknown user, each with the right and with a wrong
\* secret, and the record of a promotional message, which has neither type
\* nor amount nor fingerprint
WebhookBodies ==
    [secretOk : {TRUE}, valid : {TRUE}, userId : {"123"},
     type : transaction_type \cup {NULL, "bonus"}, amount : {250000},
     referenceId : {NULL, "12345678"}, emailHash : {NoticeHash(1), NULL}]
    \cup [secretOk : {TRUE, FALSE}, valid : {FALSE}, userId : {"123"},
          type : {NULL}, amount : {0}, referenceId : {NULL}, emailHash : {NULL}]
    \cup [secretOk : BOOLEAN, valid : {TRUE}, userId : {"123", "999"},
          type : {"transfer_received"}, amount : {250000},
          referenceId : {NULL}, emailHash : {NoticeHash(1)}]
    \cup [secretOk : {TRUE}, valid : {TRUE}, isPromotional : {TRUE}, userId : {"123"},
          type : {NULL}, referenceId : {NULL}, emailHash : {NULL}]

\* what arrives after the first request, and the email it was made from: the
\* same record once more; the record of an email with another subject; the
\* record of the notice of another transaction (another amount, another
\* reference id if any) with the same subject and the same start of the body
LaterBodies(first) ==
    LET again == [data |-> first, email |-> 1]
        otherSubject ==
            [data |-> [first EXCEPT !.emailHash =
                                        IF first.emailHash = NULL THEN NULL ELSE NoticeHash(3)],
             email |-> 3]
        otherTransaction ==
            [data |-> [first EXCEPT !.emailHash = NoticeHash(2),
                                    !.amount = 120000,
                                    !.referenceId = IF first.referenceId = NULL
                                                    THEN NULL ELSE "87654321"],
             email |-> 2]
    IN  {again, otherSubject}
        \cup IF "amount" \in DOMAIN first /\ first.emailHash # NULL
             THEN {otherTransaction} ELSE {}

BackendInit ==
    /\ rows = <<>>
    /\ balance = 0
    /\ failures = 0
    /\ migrated \in BOOLEAN
    /\ \E first \in WebhookBodies :
           \E later \in [2..NumRequests -> LaterBodies(first)] :
               requests = [i \in 1..NumRequests |->
                              [data |-> IF i = 1 THEN first ELSE later[i].data,
                               email |-> IF i = 1 THEN 1 ELSE later[i].email,
                               pc |-> "received",
                               user |-> [id |-> NULL, balance |-> 0],
                               response |-> [status |-> 0, result |-> NULL,
                                             balanceChange |-> 0]]]
    /\ HandlerIdle
    /\ ParserIdle

\* res.status(status).json(...) and the handler returns
Respond(i, status, result, balanceChange) ==
    requests' = [requests EXCEPT
                    ![i].pc = "responded",
                    ![i].response = [status |-> status, result |-> result,
                                     balanceChange |-> balanceChange]]

Goto(i, next) == requests' = [requests EXCEPT ![i].pc = next]

incomeTypes == {"transfer_received", "payment_received", "deposit", "refund_received"}

\* calculateBalanceChange taking a refund that was sent for income
calculateBalanceChange_RefundSentAsIncome(type, amount) ==
    IF type \in incomeTypes \cup {"refund_sent"} THEN amount
    ELSE IF type \in expenseTypes THEN -amount
    ELSE 0

calculateBalanceChange(type, amount) ==
    IF type \in incomeTypes THEN amount
    ELSE IF type \in expenseTypes THEN -amount
    ELSE 0

\* the webhook looking at data.valid before the secret
WebhookStart_ValidBeforeSecret(i) ==
    /\ requests[i].pc = "received"
    /\ IF ~requests[i].data.valid THEN Goto(i, "log_failure")
       ELSE IF ~requests[i].data.secretOk THEN Respond(i, 401, "Unauthorized", 0)
       ELSE Goto(i, "select_user")
    /\ UNCHANGED <<rows, balance, failures, migrated, handlerVars, parserVars>>

\* the secret and data.valid are looked at
WebhookStart(i) ==
    /\ requests[i].pc = "received"
    /\ IF ~requests[i].data.secretOk THEN Respond(i, 401, "Unauthorized", 0)
       ELSE IF ~requests[i].data.valid THEN Goto(i, "log_failure")
       ELSE Goto(i, "select_user")
    /\ UNCHANGED <<rows, balance, failures, migrated, handlerVars, parserVars>>

\* await logParsingFailure(data)
LogParsingFailure(i) ==
    /\ requests[i].pc = "log_failure"
    /\ failures' = failures + 1
    /\ Respond(i, 200, "logged", 0)
    /\ UNCHANGED <<rows, balance, migrated, handlerVars, parserVars>>

\* the user is read, with the balance of this moment
SelectUser(i) ==
    /\ requests[i].pc = "select_user"
    /\ IF requests[i].data.userId \in RegisteredUsers
       THEN requests' = [requests EXCEPT
                            ![i].user = [id |-> requests[i].data.userId, balance |-> balance],
                            ![i].pc = IF requests[i].data.emailHash # NULL
                                      THEN "select_existing" ELSE "insert"]
       ELSE Respond(i, 404, "User not found", 0)
    /\ UNCHANGED <<rows, balance, failures, migrated, handlerVars, parserVars>>

\* the rows .single() would have to choose from
RowsWithHash(user_id, email_hash) ==
    {k \in 1..Len(rows) : rows[k].user_id = user_id /\ rows[k].email_hash = email_hash}

\* the duplicate check taking a row for a duplicate only if the amount is
\* the same too
SelectExisting_SameAmount(i) ==
    /\ requests[i].pc = "select_existing"
    /\ IF /\ migrated
          /\ Cardinality({k \in RowsWithHash(requests[i].user.id, requests[i].data.emailHash) :
                              rows[k].amount = requests[i].data.amount}) = 1
       THEN Respond(i, 200, "skipped", 0)
       ELSE Goto(i, "insert")
    /\ UNCHANGED <<rows, balance, failures, migrated, handlerVars, parserVars>>

\* the duplicate check: .single() gives a row only if exactly one matches
SelectExisting(i) ==
    /\ requests[i].pc = "select_existing"
    /\ IF /\ migrated
          /\ Cardinality(RowsWithHash(requests[i].user.id, requests[i].data.emailHash)) = 1
       THEN Respond(i, 200, "skipped", 0)
       ELSE Goto(i, "insert")
    /\ UNCHANGED <<rows, balance, failures, migrated, handlerVars, parserVars>>

\* whether the table takes the row: its columns, type transaction_type NOT
\* NULL, amount NOT NULL, and the unique index idx_transactions_unique_ref
InsertAccepted(user_id, data) ==
    /\ migrated
    /\ data.type \in transaction_type
    /\ "amount" \in DOMAIN data
    /\ data.referenceId # NULL =>
           \A k \in 1..Len(rows) :
               ~(rows[k].user_id = user_id /\ rows[k].reference_id = data.referenceId)

\* the insert into a table that has the columns and no constraint on them
InsertTransaction_NoConstraints(i) ==
    /\ requests[i].pc = "insert"
    /\ LET data == requests[i].data
       IN  IF migrated
           THEN /\ rows' = Append(rows, [user_id |-> requests[i].user.id, type |-> data.type,
                                         amount |-> IF "amount" \in DOMAIN data
                                                    THEN data.amount ELSE 0,
                                         reference_id |-> data.referenceId,
                                         email_hash |-> data.emailHash])
                /\ Respond(i, 200, "success", 0)
           ELSE /\ Respond(i, 500, "Internal server error", 0)
                /\ UNCHANGED rows
    /\ UNCHANGED <<balance, failures, migrated, handlerVars, parserVars>>

\* the row is inserted; a refused insert is thrown and answered with 500
InsertTransaction(i) ==
    /\ requests[i].pc = "insert"
    /\ LET data == requests[i].data
           balanceChange == calculateBalanceChange(data.type, data.amount)
       IN  IF InsertAccepted(requests[i].user.id, data)
           THEN /\ rows' = Append(rows, [user_id |-> requests[i].user.id, type |-> data.type,
                                         amount |-> data.amount,
                                         reference_id |-> data.referenceId,
                                         email_hash |-> data.emailHash])
                /\ IF balanceChange # 0
                   THEN Goto(i, "update_balance")
                   ELSE Respond(i, 200, "success", balanceChange)
           ELSE /\ Respond(i, 500, "Internal server error", 0)
                /\ UNCHANGED rows
    /\ UNCHANGED <<balance, failures, migrated, handlerVars, parserVars>>

\* users.balance is set to the balance read at the start plus the change
UpdateBalance(i) ==
    /\ requests[i].pc = "update_balance"
    /\ LET balanceChange ==
               calculateBalanceChange(requests[i].data.type, requests[i].data.amount)
       IN  /\ balance' = requests[i].user.balance + balanceChange
           /\ Respond(i, 200, "success", balanceChange)
    /\ UNCHANGED <<rows, failures, migrated, handlerVars, parserVars>>

BackendNext ==
    \E i \in 1..NumRequests :
        \/ WebhookStart(i)
        \/ LogParsingFailure(i)
        \/ SelectUser(i)
        \/ SelectExisting(i)
        \/ InsertTransaction(i)
        \/ UpdateBalance(i)

BackendSpec == BackendInit /\ [][BackendNext]_vars

(***************************************************************************)
(* What the outbound calls of an invocation are                            *)
(***************************************************************************)

CallsTo(dest) == {i \in 1..Len(calls) : calls[i].to = dest}

AICalls(purpose) == {i \in CallsTo("ai") : calls[i].purpose = purpose}

HasReason(data, reason) == "reason" \in DOMAIN data /\ data.reason = reason

RecordsWithReason(reason) == {i \in CallsTo("webhook") : HasReason(calls[i].data, reason)}

PromotionalRecords ==
    {i \in CallsTo("webhook") :
         "isPromotional" \in DOMAIN calls[i].data /\ calls[i].data.isPromotional}

TransactionRecords ==
    {i \in CallsTo("webhook") : "type" \in DOMAIN calls[i].data /\ calls[i].data.valid}

ValidRecipient == extractUserId(message.to) # NULL

(***************************************************************************)
(* Properties                                                              *)
(***************************************************************************)

\* C1: for every message whose recipient address names no user (extractUserId
\* returns null) the handler makes no outbound call at all, no classifier
\* call, no webhook POST and no forward POST, and it ends by returning.
C1_InvalidRecipientMakesNoCall ==
    ~ValidRecipient =>
        /\ calls = <<>>
        /\ pc \in {"start", "done"}
        /\ pc = "done" => outcome = "returned"

\* a message of a known institution to a recipient that names no user has
\* been handled
C1_Witness ==
    /\ pc = "done"
    /\ outcome = "returned"
    /\ message.to = "user_@jamty.xyz"
    /\ identifyInstitution(message.from) # NoInstitution
    /\ calls = <<>>

C3_EveryInvocationCompletes == <>(outcome # "running")

\* C4: the handler never rejects to its caller: whatever fails (the read of
\* the raw message, a classifier call, the webhook POST, the secondary
\* worker_error POST), an invocation that ends ends by returning.
C4_NeverPropagates ==
    /\ outcome # "threw"
    /\ pc = "done" => outcome = "returned"

\* the worker_error POST itself has failed and the handler has returned
C4_Witness ==
    /\ pc = "done"
    /\ outcome = "returned"
    /\ calls # <<>>
    /\ LastCall.to = "webhook"
    /\ HasReason(LastCall.data, "worker_error")
    /\ LastCall.answer # "2xx"

\* the handler has called classifyEmailIntent
IntentClassified == variant = "multi" /\ institution # NoInstitution /\ pc # "classify"

\* C5, as amended: for every message of a recognized institution whose body
\* contains "cashback disponible" (in any letter case) entirely within its
\* first 500 characters, classifyEmailIntent as called by the handler returns
\* promotional by that keyword, and no classifier call is made for the intent.
C5_KeywordInPreviewIsPromotional ==
    (IntentClassified
     /\ includes(toLowerCase(substring(emailBody, 0, PreviewLen)), "cashback disponible")) =>
        /\ intent = [type |-> "promotional", confidence |-> "keyword",
                     reason |-> "cashback disponible"]
        /\ AICalls("intent") = {}

\* the keyword ends at the 500th character of the body, in a message whose
\* subject has a transaction keyword, and the message went out as promotional
C5_Witness ==
    /\ pc = "done"
    /\ emailBody = PaddedBody(PreviewLen - KeywordLen)
    /\ subject = "Recibiste una transferencia"
    /\ intent.type = "promotional"
    /\ PromotionalRecords # {}
    /\ CallsTo("ai") = {}

\* C5, as stated: the same for a keyword at any position in the body.
C5_KeywordAnywhereIsPromotional ==
    (IntentClassified /\ includes(toLowerCase(emailBody), "cashback disponible")) =>
        /\ intent.type = "promotional"
        /\ AICalls("intent") = {}

\* C6: for every message of a sender on an institution's marketing list the
\* multi-institution worker asks no classifier, never sends a transaction
\* record, and sends exactly one record with isPromotional=true.
C6_MarketingSenderIsPromotional ==
    (variant = "multi" /\ institution.isMarketing) =>
        /\ CallsTo("ai") = {}
        /\ TransactionRecords = {}
        /\ Cardinality(PromotionalRecords) <= 1
        /\ pc \notin {"classify", "intent_done"} => Cardinality(PromotionalRecords) = 1
        /\ \A i \in PromotionalRecords :
               /\ calls[i].data.valid
               /\ calls[i].data.institution = institution.id

\* a marketing sender's message that reads like a transfer has been handled
C6_Witness ==
    /\ pc = "done"
    /\ variant = "multi"
    /\ institution.isMarketing
    /\ subject = "Recibiste una transferencia"
    /\ emailBody = "Te enviaron $2.500"
    /\ Cardinality(PromotionalRecords) = 1

\* the answers with which the intent classifier fails: an exception or a
\* timeout, no result, a result without a response text
FailedAnswers == {"throw", "null", "missing"}

\* C7, as stated: whenever the handler had to ask the intent classifier and
\* the classifier failed (exception, timeout, malformed response such as a
\* result without a response text), the intent is transactional with
\* confidence fallback.
C7_FailedIntentClassifierFallsBack ==
    \A i \in AICalls("intent") :
        calls[i].answer \in FailedAnswers =>
            intent.type = "transaction" /\ intent.confidence = "fallback"

\* the subject keywords and the body keywords of the keyword chain
TypeSubjectKeywords ==
    {"recibiste", "te transfirieron", "te enviaron", "transferencia recibida",
     "te pagaron", "recibiste un pago", "te depositaron", "pago recibido",
     "te devolvieron", "reembolso",
     "ingreso", "cargaste", "acreditamos", "cashback", "bonificación", "ganaste",
     "transferiste", "enviaste", "transferencia enviada", "fue enviada",
     "pagaste", "compraste", "qr", "suscripción", "cobro automático", "cuota", "débito",
     "pago enviado",
     "devolviste", "reembolsaste",
     "retiro", "extracción"}

TypeBodyKeywords == {"devolución a tu favor", "retiro"}

HasTypeKeyword ==
    \/ \E k \in TypeSubjectKeywords : includes(toLowerCase(subject), k)
    \/ \E k \in TypeBodyKeywords : includes(toLowerCase(emailBody), k)

TypeClassifierFailed == \E i \in AICalls("type") : calls[i].answer = "throw"

\* C8: when the type classifier throws or times out, parseTransaction does
\* not throw: it returns a transaction whose type is one of the valid types
\* or unknown, and is not unknown exactly if a keyword of the keyword chain
\* occurs in the subject (or, for the two body keywords, in the body).
C8_TypeByKeywordsWhenClassifierFails ==
    (variant = "multi" /\ TypeClassifierFailed) =>
        /\ transaction # NoTransaction
        /\ pc # "await_type"
        /\ transaction.type \in Range(VALID_TRANSACTION_TYPES) \cup {"unknown"}
        /\ transaction.type # "unknown" <=> HasTypeKeyword

\* the type classifier threw and the subject's keyword decided the type
C8_Witness ==
    /\ variant = "multi"
    /\ TypeClassifierFailed
    /\ subject = "Recibiste una transferencia"
    /\ transaction.type = "transfer_received"

\* Scenario 1: a transfer notice of Mercado Pago
Scenario1 ==
    /\ ValidRecipient
    /\ message.rawOk
    /\ message.from = "info@mercadopago.com"
    /\ subject = "Recibiste una transferencia"
    /\ emailBody = "Te enviaron $2.500"

\* the type the type classifier gave, NULL when it gave no valid one
ClassifierType ==
    IF AICalls("type") = {} THEN NULL
    ELSE LET call == calls[CHOOSE i \in AICalls("type") : TRUE]
         IN  IF call.answer = "text" THEN TypeFromAI(AIText(call.text)) ELSE NULL

\* C9, as amended: in scenario 1 the handler asks no intent classifier and
\* sends one transaction record with amount=2500 and valid=true for every
\* behaviour of the classifiers that lets it finish; the record's type is the
\* type classifier's answer when that is a valid type, and transfer_received
\* otherwise (failure, timeout, invalid answer, single-institution worker).
C9_TransferScenario ==
    Scenario1 =>
        /\ AICalls("intent") = {}
        /\ CallsTo("webhook") = TransactionRecords \cup RecordsWithReason("worker_error")
        /\ pc = "done" => Cardinality(TransactionRecords) = 1
        /\ \A i \in TransactionRecords :
               /\ calls[i].data.amount = 250000
               /\ calls[i].data.valid
               /\ calls[i].data.type =
                      IF ClassifierType # NULL THEN ClassifierType ELSE "transfer_received"

\* scenario 1 has been handled with a type classifier that answered payment_sent
C9_Witness ==
    /\ Scenario1
    /\ pc = "done"
    /\ \E i \in TransactionRecords :
           /\ calls[i].data.type = "payment_sent"
           /\ calls[i].data.amount = 250000

\* C9, as stated: in scenario 1 the record has type=transfer_received,
\* amount=2500 and valid=true for every behaviour of the classifiers.
C9_TransferScenarioAnyClassifier ==
    Scenario1 =>
        \A i \in TransactionRecords :
            /\ calls[i].data.type = "transfer_received"
            /\ calls[i].data.amount = 250000
            /\ calls[i].data.valid

\* parseTransaction has returned without a positive amount and the handler
\* has looked at it
AmountMissing == transaction # NoTransaction /\ transaction.amount <= 0 /\ pc # "parsed"

\* C10: when parseTransaction yields no positive amount, the handler sends
\* exactly one record, valid=false with reason=parse_failed, the subject and
\* the body preview; it makes no category call and computes no fingerprint.
C10_NoAmountIsParseFailed ==
    AmountMissing =>
        /\ Cardinality(RecordsWithReason("parse_failed")) = 1
        /\ CallsTo("webhook") =
               RecordsWithReason("parse_failed") \cup RecordsWithReason("worker_error")
        /\ \A i \in RecordsWithReason("parse_failed") :
               /\ ~calls[i].data.valid
               /\ calls[i].data.subject = subject
               /\ calls[i].data.bodyPreview = substring(emailBody, 0, PreviewLen)
               /\ variant = "multi" => calls[i].data.institution = institution.id
        /\ AICalls("category") = {}
        /\ emailHash = NULL

\* a transactional message of a recognized institution without an amount has
\* been handled
C10_Witness ==
    /\ pc = "done"
    /\ variant = "multi"
    /\ intent.type = "transaction"
    /\ transaction.amount = 0
    /\ Cardinality(RecordsWithReason("parse_failed")) = 1

\* the amounts of all matches of the two patterns in a text (cents)
ParsedAmounts(text) == {parseArgentineAmount(c) : c \in AmountMatches(text) \ {""}}

\* extractAmount has returned value for text
AmountExtracted(text, value) ==
    /\ fnCall = [fn |-> "extractAmount", text |-> text]
    /\ fnResult = <<value>>

\* C11: extractAmount returns the largest of the parsed values of all matches
\* of the two patterns in the text, not the first, and 0 when nothing matches;
\* a text with both "$50" and "$1.200" gives 1200 in either order.
C11_ExtractAmountIsMaximum ==
    (fnCall.fn = "extractAmount" /\ fnResult # <<>>) =>
        LET parsed == ParsedAmounts(fnCall.text)
            value == fnResult[1]
        IN  /\ parsed = {} => value = 0
            /\ parsed # {} => value \in parsed /\ \A v \in parsed : value >= v
            /\ (includes(fnCall.text, "$50") /\ includes(fnCall.text, "$1.200")) =>
                   value = 120000

\* the smaller amount came first and the larger one was returned
C11_Witness == AmountExtracted("$50 y $1.200", 120000)

\* the Argentine reading of a written amount, in cents, digit by digit: a dot
\* is skipped, a comma starts the two decimals
ArgentineCents(str) ==
    LET cents[t \in STRING, whole \in Nat] ==
            IF t = "" THEN 100 * whole
            ELSE IF CharAt(t, 1) = "." THEN cents[SubSeq(t, 2, Len(t)), whole]
            ELSE IF CharAt(t, 1) = "," THEN 100 * whole + digitsValue(SubSeq(t, 2, 3))
            ELSE cents[SubSeq(t, 2, Len(t)), 10 * whole + digitsValue(CharAt(t, 1))]
    IN  cents[str, 0]

\* C12: amount parsing follows the Argentine rules: in what the amount pattern
\* captures, a trailing comma with two digits is the decimal part and every
\* dot a thousands separator, and without that part the value is an integer
\* with every dot a thousands separator; "$1.500,50" gives 1500.50, "$1.500"
\* gives 1500 and "ARS 2.000,00" gives 2000.00 (in cents).
C12_ArgentineLocale ==
    (fnCall.fn = "extractAmount" /\ fnResult # <<>>) =>
        LET captures == AmountMatches(fnCall.text) \ {""}
        IN  /\ \A c \in captures :
                   /\ parseArgentineAmount(c) = ArgentineCents(c)
                   /\ ~includes(c, ",") => parseArgentineAmount(c) % 100 = 0
            /\ Cardinality(captures) = 1 =>
                   fnResult[1] = ArgentineCents(CHOOSE c \in captures : TRUE)
            /\ fnCall.text = "$1.500,50" => fnResult[1] = 150050
            /\ fnCall.text = "$1.500" => fnResult[1] = 150000
            /\ fnCall.text = "ARS 2.000,00" => fnResult[1] = 200000

\* an amount with thousands separator and decimals has been parsed
C12_Witness == AmountExtracted("$1.500,50", 150050)

\* the fingerprints of two messages have been computed
HashesComputed == fnCall.fn = "emailHash" /\ fnResult # <<>>

\* the part of a message's body that its fingerprint takes
HashedPrefix(m) == substring(m.emailBody, 0, FingerprintLen)

\* C13, as amended: with SHA-256 taken as injective, two messages get the same
\* fingerprint exactly if subject + first 200 characters of the body is the
\* same string for both: a change of the subject alone, or of the first 200
\* characters of the body alone, changes the fingerprint, and a change after
\* the 200th character of the body does not.
C13_FingerprintOfConcatenation ==
    HashesComputed =>
        LET a == fnCall.first
            b == fnCall.second
        IN  /\ fnResult[1] = fnResult[2]
                   <=> a.subject \o HashedPrefix(a) = b.subject \o HashedPrefix(b)
            /\ (a.subject = b.subject /\ HashedPrefix(a) # HashedPrefix(b)) =>
                   fnResult[1] # fnResult[2]
            /\ (a.subject # b.subject /\ HashedPrefix(a) = HashedPrefix(b)) =>
                   fnResult[1] # fnResult[2]
            /\ (a.subject = b.subject /\ HashedPrefix(a) = HashedPrefix(b)) =>
                   fnResult[1] = fnResult[2]

\* two messages with the same subject whose bodies differ in the 200th
\* character only have different fingerprints
C13_Witness ==
    /\ HashesComputed
    /\ fnCall.first.subject = "Pago"
    /\ fnCall.second.subject = "Pago"
    /\ fnCall.first.emailBody = repeat("-", FingerprintLen - 1) \o "A"
    /\ fnCall.second.emailBody = repeat("-", FingerprintLen - 1) \o "B"
    /\ fnResult[1] # fnResult[2]

\* C13, as stated: two messages that differ in the subject or in the first
\* 200 characters of the body get different fingerprints.
C13_DifferentMessagesDifferentFingerprints ==
    HashesComputed =>
        ((fnCall.first.subject # fnCall.second.subject
          \/ HashedPrefix(fnCall.first) # HashedPrefix(fnCall.second))
         => fnResult[1] # fnResult[2])

\* the POSTs that deliver the record of the message: every webhook POST but
\* the worker_error report of the catch block
FinalRecords == CallsTo("webhook") \ RecordsWithReason("worker_error")

\* C14, as amended: one invocation makes at most three classifier calls, at
\* most one for each of intent, type and category (the single-institution
\* worker only the category call), at most one POST that delivers the record
\* of the message, and at most one worker_error POST after a failure.
C14_CallsPerInvocation ==
    /\ \A purpose \in {"intent", "type", "category"} : Cardinality(AICalls(purpose)) <= 1
    /\ CallsTo("ai") = AICalls("intent") \cup AICalls("type") \cup AICalls("category")
    /\ variant = "single" => CallsTo("ai") = AICalls("category")
    /\ Cardinality(FinalRecords) <= 1
    /\ Cardinality(RecordsWithReason("worker_error")) <= 1

\* an invocation has asked the classifier for the intent, the type and the
\* category, and has delivered the transaction record
C14_Witness ==
    /\ pc = "done"
    /\ Cardinality(CallsTo("ai")) = 3
    /\ Cardinality(TransactionRecords) = 1
    /\ FinalRecords = TransactionRecords

\* C14, as stated: at most two classifier calls (intent, type and category
\* together) and at most one POST that delivers the final record.
C14_AtMostTwoClassifierCalls ==
    /\ Cardinality(CallsTo("ai")) <= 2
    /\ Cardinality(FinalRecords) <= 1

\* C15: a record POST that the webhook answers with a non-2xx status is never
\* sent again: the only call after it is one POST of a record valid=false,
\* reason=worker_error, and whatever the answer to that one is, the handler
\* returns without a further call.
C15_FailedPostIsNotRetried ==
    \A i \in CallsTo("webhook") :
        calls[i].answer = "non_2xx" =>
            IF HasReason(calls[i].data, "worker_error")
            THEN i = Len(calls) /\ pc = "done" /\ outcome = "returned"
            ELSE /\ Len(calls) <= i + 1
                 /\ pc \in {"catch", "await_catch_post", "done"}
                 /\ pc # "catch" => Len(calls) = i + 1
                 /\ \A j \in (i + 1)..Len(calls) :
                        /\ calls[j].to = "webhook"
                        /\ HasReason(calls[j].data, "worker_error")
                        /\ ~calls[j].data.valid
                        /\ calls[j].data # calls[i].data
                 /\ pc = "done" => outcome = "returned"

\* the transaction record and then the worker_error record were both answered
\* with a non-2xx status, and the handler has returned
C15_Witness ==
    /\ pc = "done"
    /\ outcome = "returned"
    /\ Len(calls) >= 2
    /\ calls[Len(calls) - 1].to = "webhook"
    /\ calls[Len(calls) - 1].answer = "non_2xx"
    /\ Len(calls) - 1 \in TransactionRecords
    /\ HasReason(LastCall.data, "worker_error")
    /\ LastCall.answer = "non_2xx"

\* a message of a verification sender that the handler could read
VerificationMessage ==
    /\ ValidRecipient
    /\ message.rawOk
    /\ includes(message.from, "noreply@google.com")

Recorded == {i \in 1..NumRequests : requests[i].response.result = "success"}

\* C17, as stated: the webhook processes the same email at most once: for
\* requests with the same userId and the same emailHash, in any interleaving,
\* at most one transaction row is inserted and the user's balance is changed
\* at most once.
C17_SameEmailProcessedOnce ==
    \A i \in 1..NumRequests :
        requests[i].data.emailHash # NULL =>
            /\ Cardinality(RowsWithHash(requests[i].data.userId,
                                        requests[i].data.emailHash)) <= 1
            /\ Cardinality({j \in Recorded :
                                /\ requests[j].data.userId = requests[i].data.userId
                                /\ requests[j].data.emailHash = requests[i].data.emailHash
                                /\ requests[j].response.balanceChange # 0}) <= 1

\* the sign of the documented table: +1 money in, -1 money out, 0 otherwise
BalanceSign(type) ==
    CASE type \in {"transfer_received", "payment_received", "deposit", "refund_received"} -> 1
      [] type \in {"transfer_sent", "payment_sent", "withdrawal", "refund_sent"} -> -1
      [] OTHER -> 0

\* C18: the balance change of a recorded transaction follows the sign table:
\* +amount for transfer_received, payment_received, deposit, refund_received,
\* -amount for transfer_sent, payment_sent, withdrawal, refund_sent, and 0 for
\* every other type (unknown, a missing type); the webhook reports that
\* change and adds it to the balance it read. (Stated of the requests that
\* carry an amount.)
C18_BalanceChangeBySignTable ==
    \A i \in {j \in 1..NumRequests : "amount" \in DOMAIN requests[j].data} :
        LET data == requests[i].data
            expected == BalanceSign(data.type) * data.amount
        IN  /\ calculateBalanceChange(data.type, data.amount) = expected
            /\ requests[i].pc = "update_balance" => expected # 0
            /\ i \in Recorded =>
                   /\ requests[i].response.balanceChange = expected
                   /\ Recorded = {i} => balance = expected

\* a refund that was sent has been recorded and taken off the balance
C18_Witness ==
    \E i \in Recorded :
        /\ requests[i].data.type = "refund_sent"
        /\ requests[i].response.balanceChange = -250000
        /\ balance = -250000

\* the type classifier's answer after normalization: trimmed, lower-cased,
\* every character but a-z and _ removed; NULL when there is no answer text
NormalizedTypeAnswer ==
    IF AICalls("type") = {} THEN NULL
    ELSE LET typeCall == calls[CHOOSE i \in AICalls("type") : TRUE]
         IN  IF typeCall.answer = "text"
             THEN keepChars(toLowerCase(trim(typeCall.text)), TypeIdChars)
             ELSE NULL

\* C19: for every response of the type classifier (any text, an empty one,
\* none, an exception) the type that parseTransaction returns is one of the
\* eight valid types or unknown; the classifier's answer is the type only if
\* its normalization is one of the eight, and otherwise the keywords decide.
C19_TypeIsInEnumeration ==
    transaction # NoTransaction =>
        /\ transaction.type \in Range(VALID_TRANSACTION_TYPES) \cup {"unknown"}
        /\ transaction.type =
               IF NormalizedTypeAnswer \in Range(VALID_TRANSACTION_TYPES)
               THEN NormalizedTypeAnswer
               ELSE KeywordType(toLowerCase(subject), toLowerCase(emailBody))
        /\ \A i \in AICalls("type") :
               /\ (calls[i].answer = "text" /\ calls[i].text = " Transfer_Sent.\n") =>
                      transaction.type = "transfer_sent"
               /\ (calls[i].answer = "text" /\ calls[i].text \in {"a transfer", ""}) =>
                      transaction.type =
                          KeywordType(toLowerCase(subject), toLowerCase(emailBody))

\* the classifier answered with a text that names no type, and the keyword of
\* the subject decided
C19_Witness ==
    /\ \E i \in AICalls("type") : calls[i].answer = "text" /\ calls[i].text = "a transfer"
    /\ subject = "Recibiste una transferencia"
    /\ transaction.type = "transfer_received"

\* the keyword groups of the fallback, in the order of the claim
TypeGroups ==
    << [type |-> "transfer_received",
        subject |-> {"recibiste", "te transfirieron", "te enviaron", "transferencia recibida"},
        body |-> {}],
       [type |-> "payment_received",
        subject |-> {"te pagaron", "recibiste un pago", "te depositaron", "pago recibido"},
        body |-> {}],
       [type |-> "refund_received",
        subject |-> {"te devolvieron", "reembolso"},
        body |-> {"devolución a tu favor"}],
       [type |-> "deposit",
        subject |-> {"ingreso", "cargaste", "acreditamos", "cashback", "bonificación",
                     "ganaste"},
        body |-> {}],
       [type |-> "transfer_sent",
        subject |-> {"transferiste", "enviaste", "transferencia enviada", "fue enviada"},
        body |-> {}],
       [type |-> "payment_sent",
        subject |-> {"pagaste", "compraste", "qr", "suscripción", "cobro automático",
                     "cuota", "débito", "pago enviado"},
        body |-> {}],
       [type |-> "refund_sent", subject |-> {"devolviste", "reembolsaste"}, body |-> {}],
       [type |-> "withdrawal", subject |-> {"retiro", "extracción"}, body |-> {"retiro"}] >>

\* the groups with a keyword in the lower-cased subject or body
MatchingGroups(subjectLower, bodyLower) ==
    {g \in 1..Len(TypeGroups) :
         \/ AnyIn(subjectLower, TypeGroups[g].subject)
         \/ AnyIn(bodyLower, TypeGroups[g].body)}

MoneyInGroups == 1..4

MoneyOutGroups == 5..8

\* C20: in the keyword fallback the groups are tried in the order
\* transfer_received, payment_received, refund_received, deposit,
\* transfer_sent, payment_sent, refund_sent, withdrawal and the first group
\* with a keyword wins: a subject with keywords of a money-in and of a
\* money-out group gets the money-in type, a text with no keyword gets unknown.
C20_FirstKeywordGroupWins ==
    (fnCall.fn = "parseTransaction" /\ fnResult # <<>>) =>
        LET matching == MatchingGroups(toLowerCase(fnCall.subject), toLowerCase(fnCall.body))
            inSubject == MatchingGroups(toLowerCase(fnCall.subject), "")
            type == fnResult[1].type
        IN  /\ matching = {} => type = "unknown"
            /\ matching # {} =>
                   type = TypeGroups[CHOOSE g \in matching : \A h \in matching : g <= h].type
            /\ (inSubject \cap MoneyInGroups # {} /\ inSubject \cap MoneyOutGroups # {}) =>
                   type \in {TypeGroups[g].type : g \in MoneyInGroups}

\* a subject that names the payment made before the refund received is a
\* refund received
C20_Witness ==
    /\ fnCall = [fn |-> "parseTransaction", subject |-> "Pagaste y Reembolso", body |-> ""]
    /\ fnResult # <<>>
    /\ fnResult[1].type = "refund_received"

\* the registry entries of institution i that the bare address matches:
\* an entry with a leading "@" by its tail, any other by equality
MatchingEntries(list, email) ==
    {k \in 1..Len(list) :
        IF CharAt(list[k], 1) = "@"
        THEN Len(email) >= Len(list[k])
             /\ SubSeq(email, Len(email) - Len(list[k]) + 1, Len(email)) = list[k]
        ELSE email = list[k]}

MatchingInstitutions(email) ==
    {i \in 1..Len(FINANCIAL_INSTITUTIONS) :
        \/ MatchingEntries(FINANCIAL_INSTITUTIONS[i].transactionalDomains, email) # {}
        \/ MatchingEntries(FINANCIAL_INSTITUTIONS[i].marketingDomains, email) # {}}

\* C21: identifyInstitution returns the first institution of the registry, in
\* the order it is declared, that has an entry matching the bare address; the
\* match is a marketing one only if no entry of that institution's
\* transactional list matches; without a matching institution it returns none.
C21_FirstMatchingInstitution ==
    (fnCall.fn = "identifyInstitution" /\ fnResult # <<>>) =>
        LET email == extractEmailAddress(fnCall.from)
            matching == MatchingInstitutions(email)
            first == CHOOSE i \in matching : \A j \in matching : i <= j
        IN  IF email = "" \/ matching = {}
            THEN fnResult[1] = NoInstitution
            ELSE /\ fnResult[1].id = FINANCIAL_INSTITUTIONS[first].id
                 /\ fnResult[1].name = FINANCIAL_INSTITUTIONS[first].name
                 /\ fnResult[1].type = FINANCIAL_INSTITUTIONS[first].type
                 /\ fnResult[1].isMarketing =
                        (MatchingEntries(FINANCIAL_INSTITUTIONS[first].transactionalDomains,
                                         email) = {})

\* an address of the marketing subdomain of the second institution of the
\* registry is matched to that institution, as a marketing sender
C21_Witness ==
    /\ fnCall = [fn |-> "identifyInstitution", from |-> "promo@marketing.uala.com.ar"]
    /\ fnResult = <<[id |-> "uala", name |-> "Ualá", type |-> "fintech", isMarketing |-> TRUE]>>

\* C22: a From header is accepted, by either worker, only by exact comparison
\* of its bare address: the address equals a registered exact address or ends
\* with a registered domain entry; a header that merely contains a registered
\* sender is not accepted.
C22_SenderAcceptedByExactComparison ==
    /\ (fnCall.fn = "identifyInstitution" /\ fnResult # <<>> /\ fnResult[1] # NoInstitution) =>
           MatchingInstitutions(extractEmailAddress(fnCall.from)) # {}
    /\ (fnCall.fn = "isFromMercadoPago" /\ fnResult = <<TRUE>>) =>
           MatchingEntries(validSenders, extractEmailAddress(fnCall.from)) # {}

\* the sender check of the worker has accepted the sender
SenderMatched ==
    IF variant = "multi"
    THEN institution # NoInstitution
    ELSE pc \notin {"start", "read", "route", "identify"} /\ isFromMercadoPago(message.from)

\* C23: the stages run in order. Whatever the handler has done so far, an
\* intent, an extracted transaction or a classifier call exists only for a
\* sender that was matched; in the multi-institution worker an extracted
\* transaction and a type or category call exist only for an intent decided
\* transactional; a category, a category call and a fingerprint exist only
\* for an extracted amount above zero.
C23_StagesInOrder ==
    /\ (intent # NoIntent \/ transaction # NoTransaction \/ CallsTo("ai") # {}) =>
           SenderMatched
    /\ (variant = "multi"
        /\ (transaction # NoTransaction \/ AICalls("type") # {} \/ AICalls("category") # {})) =>
           intent.type = "transaction"
    /\ (category # NULL \/ AICalls("category") # {} \/ emailHash # NULL) =>
           transaction.amount > 0

\* an invocation that went through every stage: the classifier was asked for
\* the intent, the type and the category, and the fingerprint was computed
C23_Witness ==
    /\ pc = "done"
    /\ variant = "multi"
    /\ AICalls("intent") # {}
    /\ AICalls("type") # {}
    /\ AICalls("category") # {}
    /\ emailHash # NULL
    /\ TransactionRecords # {}

\* C24: in every step of a webhook request: with a wrong secret it is answered
\* 401 and transactions, users.balance and parsing_failures stay as they are;
\* with the right secret and valid=false it leaves transactions and the
\* balance alone and adds exactly one row to parsing_failures, with its
\* answer; with valid=true for a user that is not registered it is answered
\* 404 and leaves transactions, the balance and parsing_failures alone.
C24_WebhookFrameConditions ==
    [][\A i \in 1..NumRequests :
          (requests'[i] # requests[i]) =>
              LET data == requests[i].data
                  responded == requests'[i].pc = "responded"
                  response == requests'[i].response
              IN  /\ ~data.secretOk =>
                         /\ responded /\ response.status = 401
                         /\ UNCHANGED <<rows, balance, failures>>
                  /\ (data.secretOk /\ ~data.valid) =>
                         /\ UNCHANGED <<rows, balance>>
                         /\ failures' = IF responded THEN failures + 1 ELSE failures
                         /\ responded => response.status = 200 /\ response.result = "logged"
                  /\ (data.secretOk /\ data.valid /\ data.userId \notin RegisteredUsers) =>
                         /\ UNCHANGED <<rows, balance, failures>>
                         /\ responded => response.status = 404]_vars

\* a transaction record for the registered user that came with a wrong secret
\* has been answered, each time, and nothing is stored
C24_Witness ==
    /\ \A i \in 1..NumRequests :
           /\ requests[i].pc = "responded"
           /\ requests[i].response.status = 401
           /\ requests[i].data.valid
           /\ requests[i].data.userId \in RegisteredUsers
    /\ rows = <<>>
    /\ balance = 0
    /\ failures = 0

\* the classifier's answer to the category call, cleaned as categorizeWithAI
\* cleans it: trimmed, lower-cased, reduced to letters and "-"
NormalizedCategoryAnswer(call) ==
    IF call.answer = "text"
    THEN keepChars(toLowerCase(trim(call.text)), CategoryIdChars)
    ELSE NULL

\* C25: categorizeWithAI never throws and returns a member of
\* VALID_CATEGORIES: once the category call has settled the handler goes on to
\* send, with no error, and the category is the cleaned answer when that is a
\* member and "miscellaneous-other" when it is not, is missing, or the call
\* failed; a category decided without a call is "miscellaneous-other"; every
\* transaction record carries a valid category, or none in the
\* single-institution worker for a type that is not an expense.
C25_CategoryIsValid ==
    /\ category # NULL => category \in Range(VALID_CATEGORIES)
    /\ (category # NULL /\ AICalls("category") = {}) => category = "miscellaneous-other"
    /\ \A i \in AICalls("category") :
           calls[i].answer \notin {"pending", "never"} =>
               /\ i = Len(calls) => pc = "send" /\ error = NULL
               /\ category = IF NormalizedCategoryAnswer(calls[i]) \in Range(VALID_CATEGORIES)
                             THEN NormalizedCategoryAnswer(calls[i])
                             ELSE "miscellaneous-other"
    /\ \A i \in TransactionRecords :
           IF variant = "single" /\ calls[i].data.type \notin expenseTypes
           THEN calls[i].data.category = NULL
           ELSE calls[i].data.category \in Range(VALID_CATEGORIES)

\* the classifier answered "Shopping-Clothing." and the record that was sent
\* carries shopping-clothing
C25_Witness ==
    /\ TransactionRecords # {}
    /\ \E i \in AICalls("category") : calls[i].text = "Shopping-Clothing."
    /\ \A i \in TransactionRecords : calls[i].data.category = "shopping-clothing"

\* the POSTs to the webhook that were answered with a 2xx status
AcceptedRecords ==
    {i \in CallsTo("webhook") : calls[i].answer \in {"2xx", "2xx_not_json"}}

\* C26: in one invocation at most one POST to the webhook is answered with a
\* 2xx status, and a transaction record that was answered with one is not
\* followed by a worker_error record.
C26_AtMostOneRecordAccepted ==
    /\ Cardinality(AcceptedRecords) <= 1
    /\ \A i \in TransactionRecords \cap AcceptedRecords :
           \A j \in RecordsWithReason("worker_error") : j < i

\* the records sent with valid=true and without isPromotional
ValidRecords ==
    {i \in CallsTo("webhook") : calls[i].data.valid} \ PromotionalRecords

\* C27: every record sent with valid=true and without isPromotional has an
\* amount above zero, a type of the enumeration or "unknown", a currency that
\* is not empty and the fingerprint the handler computed; no record of any
\* kind carries an amount below zero.
C27_ValidRecordIsComplete ==
    /\ \A i \in ValidRecords :
           LET data == calls[i].data
           IN  /\ {"amount", "type", "currency", "emailHash"} \subseteq DOMAIN data
               /\ data.amount > 0
               /\ data.type \in Range(VALID_TRANSACTION_TYPES) \cup {"unknown"}
               /\ data.currency \notin {NULL, ""}
               /\ data.emailHash # NULL
               /\ data.emailHash = emailHash
    /\ \A i \in CallsTo("webhook") :
           "amount" \in DOMAIN calls[i].data => calls[i].data.amount >= 0

\* a payment of 1500,50 whose type no keyword and no classifier decided has
\* been sent as a record of type unknown
C27_Witness ==
    \E i \in ValidRecords :
        /\ calls[i].data.type = "unknown"
        /\ calls[i].data.amount > 0
        /\ calls[i].data.currency = "ARS"

\* the sum of the signed balance changes of the rows of transactions
RecordedBalanceChange ==
    LET sum[k \in 0..Len(rows)] ==
            IF k = 0 THEN 0
            ELSE sum[k - 1] + calculateBalanceChange(rows[k].type, rows[k].amount)
    IN  sum[Len(rows)]

\* C28: once every webhook request has been answered, users.balance of the
\* user is the sum of the signed balance changes of the user's rows in
\* transactions, however the requests were interleaved.
C28_BalanceIsSumOfChanges ==
    (\A i \in 1..NumRequests : requests[i].pc = "responded") =>
        balance = RecordedBalanceChange

\* the request carries the record the worker sends for a promotional message
PromotionalRequest(i) ==
    /\ "isPromotional" \in DOMAIN requests[i].data
    /\ requests[i].data.isPromotional

\* C29: a webhook request with the record of a promotional message (valid=true,
\* isPromotional=true, no type, no amount, no fingerprint) never adds a row to
\* transactions and never changes the balance: no step of it changes either,
\* and its insert is refused and answered with 500.
C29_PromotionalIsNotRecorded ==
    [][\A i \in 1..NumRequests :
          (PromotionalRequest(i) /\ requests'[i] # requests[i]) =>
              /\ UNCHANGED <<rows, balance>>
              /\ requests'[i].pc = "responded" =>
                     /\ requests'[i].response.status = 500
                     /\ requests'[i].response.balanceChange = 0]_vars

\* the promotional records have been answered on a database that has every
\* column the webhook writes, and nothing was recorded
C29_Witness ==
    /\ migrated
    /\ \A i \in 1..NumRequests :
           /\ PromotionalRequest(i)
           /\ requests[i].data.userId \in RegisteredUsers
           /\ requests[i].pc = "responded"
    /\ rows = <<>>
    /\ balance = 0

\* the emails of request i and request j have the same subject and the same
\* first 200 characters of the body
SameFingerprintInput(i, j) ==
    LET a == NoticeEmails[requests[i].email]
        b == NoticeEmails[requests[j].email]
    IN  /\ a.subject = b.subject
        /\ SubSeq(a.emailBody, 1, FingerprintLen) = SubSeq(b.emailBody, 1, FingerprintLen)

====
